---- MODULE Spec2Model ----
(***************************************************************************)
(* A model of the FoxESS cloud client (custom_components/foxess_hapa):     *)
(* the rate-limit gate, the request pipeline of _api_request, the          *)
(* telemetry decoding and the schedule-period functions of                 *)
(* FoxessHapaApiClient, and the updates of the number and select entities. *)
(*                                                                         *)
(* Time is counted in clock ticks of 0.2 s: time.time() is the variable    *)
(* now, which only the environment advances.                               *)
(***************************************************************************)
EXTENDS Integers, Sequences, FiniteSets, TLC

\* ------------------------------------------------------------------ bounds

\* Tasks that call into one client instance.
NCallers == 2
\* The gate specifications stop the clock at this tick.
MaxTime == 12

\* ------------------------------------------------- constants of the program

\* The 1 of "diff < 1" and of "1 - diff + 0.2": one second, in ticks.
OneSecond == 5
\* The 0.2 of "1 - diff + 0.2", in ticks.
Margin == 1

Callers == 1..NCallers

\* An optional value: <<>> for none, <<x>> for x.
Nothing == <<>>
Some(x) == <<x>>

\* The lists of at most n elements of S.
RECURSIVE ListsOf(_, _)
ListsOf(S, n) ==
    IF n = 0 THEN {<<>>}
    ELSE LET shorter == ListsOf(S, n - 1)
         IN  shorter \cup {Append(l, g) : l \in {x \in shorter : Len(x) = n - 1}, g \in S}

VARIABLES
    now,            \* time.time(), in ticks
    last_api_call,  \* FoxessHapaApiClient._last_api_call (0: no call yet)
    pc,             \* pc[c]: where task c stands
    rl,             \* rl[c]: the locals of task c's _rate_limit call, and what it observed
    lastPermit,     \* the tick at which _rate_limit last returned to any caller, if any
    ar,             \* the frame of the task's _api_request call: arguments, locals, outcome
    wall,           \* datetime.now().astimezone(): hour and minute
    schedule,       \* the vendor's answer to scheduler/get, under "result"
    has_battery,    \* the vendor's hasBattery of the device detail
    real_time,      \* the vendor's answer to real/query, under "result"
    out,            \* what the client operation that ran last gave its caller
    wp,             \* the number entity's update under way
    sel,            \* the select entity: _current_mode and its update under way
    poll,           \* the coordinator's polling cycle under way
    sim             \* the simulator: _battery_soc, _min_soc, _min_soc_on_grid, _work_mode

gateVars == <<now, last_api_call, pc, rl, lastPermit>>

scheduleVars == <<wall, schedule, has_battery, real_time, out, wp, sel, poll, sim>>

vars == <<now, last_api_call, pc, rl, lastPermit, ar, wall, schedule, has_battery,
          real_time, out, wp, sel, poll, sim>>

\* ------------------------------------------------------------ _rate_limit

\* The locals of a _rate_limit call before it has run.
NoCall == [entered |-> 0, prev |-> Nothing, diff |-> 0, slept |-> FALSE,
           wake |-> 0, returned |-> 0, gap |-> Nothing]

\* diff = now - self._last_api_call if self._last_api_call != 0 else 1
Diff(t, last) == IF last # 0 THEN t - last ELSE OneSecond

\* A slip of sign in the margin: 1 - diff - 0.2
SleepForMarginSubtracted(diff) == OneSecond - diff - Margin

\* The argument of asyncio.sleep: 1 - diff + 0.2
SleepFor(diff) == OneSecond - diff + Margin

\* A gate that stores the timestamp before it waits.
StampBeforeSleep(t, last) == t

\* Lines 181-182: self._last_api_call while the call is suspended in
\* asyncio.sleep; the assignment of line 183 has not run yet.
StampWhileAsleep(t, last) == last

\* What a caller records when _rate_limit returns at tick now.
Returned(r) ==
    [r EXCEPT !.returned = now,
              !.gap = IF lastPermit = Nothing THEN Nothing
                      ELSE Some(now - lastPermit[1])]

\* Lines 179-183 up to the first suspension: the call reads the clock and the
\* stored timestamp; it either suspends in asyncio.sleep or, with nothing to
\* wait for, stores the timestamp and returns in the same step.
\* serial: the callers of the instance are sequential, so that no call starts
\* while another one is suspended in the gate.
RateLimitEnter(c, serial) ==
    /\ pc[c] = "idle"
    /\ serial => \A d \in Callers : pc[d] # "sleeping"
    /\ LET diff == Diff(now, last_api_call)
           r == [NoCall EXCEPT !.entered = now, !.prev = lastPermit, !.diff = diff]
       IN  IF diff < OneSecond
           THEN /\ rl' = [rl EXCEPT ![c] = [r EXCEPT !.slept = TRUE,
                                                     !.wake = now + SleepFor(diff)]]
                /\ pc' = [pc EXCEPT ![c] = "sleeping"]
                /\ last_api_call' = StampWhileAsleep(now, last_api_call)
                /\ UNCHANGED lastPermit
           ELSE /\ rl' = [rl EXCEPT ![c] = Returned(r)]
                /\ pc' = [pc EXCEPT ![c] = "passed"]
                /\ last_api_call' = now
                /\ lastPermit' = Some(now)
    /\ UNCHANGED now

\* Line 182 resumes, at or after the time asked for, and line 183 stores the
\* timestamp.
RateLimitWake(c) ==
    /\ pc[c] = "sleeping"
    /\ now >= rl[c].wake
    /\ rl' = [rl EXCEPT ![c] = Returned(rl[c])]
    /\ pc' = [pc EXCEPT ![c] = "passed"]
    /\ last_api_call' = now
    /\ lastPermit' = Some(now)
    /\ UNCHANGED now

\* The rest of the caller's request, which does not touch the gate's state;
\* the task may then call again.
CallerDone(c) ==
    /\ pc[c] = "passed"
    /\ pc' = [pc EXCEPT ![c] = "idle"]
    /\ rl' = [rl EXCEPT ![c] = NoCall]
    /\ UNCHANGED <<now, last_api_call, lastPermit>>

\* The clock advances.
Tick ==
    /\ now < MaxTime
    /\ now' = now + 1
    /\ UNCHANGED <<last_api_call, pc, rl, lastPermit>>

\* ----------------------------------------------------------- _api_request

\* async_timeout.timeout(75): 75 s, in ticks.
Timeout == 375
\* The request specification lets the task make this many requests.
MaxRequests == 2

\* The task that issues the requests of the request specification.
Requester == 1

\* self._device_sn and self._api_key.
DeviceSn == "SN"
ApiKey == "KEY"
BASE_URL == "https://www.foxesscloud.com"

\* A path is the sequence of its segments; the "?" that starts a query string
\* is a segment of its own.
DetailPath == <<"/op/v1/device/detail", "?", "sn=", DeviceSn>>
RealQueryPath == <<"/op/v1/device/real/query">>
SchedulerGetPath == <<"/op/v2/device/scheduler/get">>
SchedulerEnablePath == <<"/op/v2/device/scheduler/enable">>

\* The calls of _api_request the client makes: method, path and which body.
ApiCalls ==
    { [method |-> "GET", path |-> DetailPath, data |-> "none"],
      [method |-> "POST", path |-> RealQueryPath, data |-> "sns"],
      [method |-> "POST", path |-> SchedulerGetPath, data |-> "deviceSN"],
      [method |-> "POST", path |-> SchedulerEnablePath, data |-> "groups"] }

\* The path signed as it is, query string included.
KeepQuery(path) == path

\* path.split("?")[0]: the segments before the first "?".
RECURSIVE SplitQuery(_)
SplitQuery(path) ==
    IF path = <<>> \/ Head(path) = "?" THEN <<>>
    ELSE <<Head(path)>> \o SplitQuery(Tail(path))

\* hashlib.md5(...).hexdigest(), taken as collision-free: the digest names its input.
Md5(text) == [md5 |-> text]

\* _generate_signature(path): the timestamp is round(time.time() * 1000); the
\* headers that vary (the fixed ones are lang, Content-Type, User-Agent, Connection).
GenerateSignature(path) ==
    LET timestamp == now * 200
    IN  [token |-> ApiKey,
         timestamp |-> timestamp,
         signature |-> Md5(<<path, "\\r\\n", ApiKey, "\\r\\n", timestamp>>)]

\* Vendor messages, as sequences of characters.
MsgTokenUpper == <<"T", "O", "K", "E", "N">>
MsgTokenBad == <<"T", "o", "k", "e", "n", " ", "b", "a", "d">>
MsgUnauth == <<"u", "n", "A", "U", "T", "H">>
MsgAuto == <<"a", "u", "t", "o">>
MsgTokSplit == <<"t", "o", "k", " ", "e", "n">>
MsgBadSn == <<"b", "a", "d", " ", "s", "n">>
Msgs == {MsgTokenUpper, MsgTokenBad, MsgUnauth, MsgAuto, MsgTokSplit, MsgBadSn, <<>>}

\* str.lower(), on one character.
LowerChar(ch) ==
    CASE ch = "A" -> "a" [] ch = "E" -> "e" [] ch = "H" -> "h" [] ch = "K" -> "k"
      [] ch = "N" -> "n" [] ch = "O" -> "o" [] ch = "T" -> "t" [] ch = "U" -> "u"
      [] OTHER -> ch

\* api_msg.lower()
Lower(str) == [i \in 1..Len(str) |-> LowerChar(str[i])]

\* sub in str
Contains(sub, str) ==
    \E i \in 1..(Len(str) - Len(sub) + 1) : SubSeq(str, i, i + Len(sub) - 1) = sub

\* The match without .lower(): case-sensitive.
IsAuthMessageCaseSensitive(api_msg) ==
    \/ Contains(<<"t", "o", "k", "e", "n">>, api_msg)
    \/ Contains(<<"a", "u", "t", "h">>, api_msg)

\* "token" in api_msg.lower() or "auth" in api_msg.lower()
IsAuthMessage(api_msg) ==
    \/ Contains(<<"t", "o", "k", "e", "n">>, Lower(api_msg))
    \/ Contains(<<"a", "u", "t", "h">>, Lower(api_msg))

\* HTTP statuses the vendor may answer with.
Statuses == {200, 401, 403, 404, 500}

\* What response.json() finds: an envelope {errno?, msg?}, a body that is not
\* JSON, or a body whose content type is not JSON.
Envelopes == [errno : {Nothing, Some(0), Some(41808)},
              msg : {Nothing} \cup {Some(m) : m \in Msgs}]
Bodies == {[kind |-> "json", envelope |-> e] : e \in Envelopes}
          \cup {[kind |-> "not_json"], [kind |-> "wrong_content_type"]}
Responses == [status : Statuses, body : Bodies]

\* The frame before any call.
NoRequest ==
    [seq |-> 0, method |-> "", path |-> <<>>, data |-> "none", called |-> 0,
     headers |-> Nothing, url |-> Nothing, block |-> Nothing,
     response |-> Nothing, result |-> Nothing, trace |-> <<>>, sends |-> 0,
     fault |-> "none", outcome |-> Nothing, finished |-> 0]

\* The errors _api_request raises itself.
ApiError == "FoxessHapaApiClientError"
CommunicationError == "FoxessHapaApiClientCommunicationError"
AuthenticationError == "FoxessHapaApiClientAuthenticationError"

Raise(exc, text) == Some([kind |-> "raise", exc |-> exc, text |-> text, value |-> Nothing])
Return(value) == Some([kind |-> "return", exc |-> "", text |-> <<>>, value |-> Some(value)])

\* The step the frame has just taken is added to its trace.
Step(a, name) == [a EXCEPT !.trace = Append(@, name)]

\* The call ends: the outcome goes to the caller, and the task is idle again.
Finish(c, a, outcome) ==
    /\ ar' = [a EXCEPT !.outcome = outcome, !.finished = now]
    /\ pc' = [pc EXCEPT ![c] = "idle"]

\* Line 192: _api_request is called and calls _rate_limit at once.
ApiRequest(c, call) ==
    /\ ar.seq < MaxRequests
    /\ RateLimitEnter(c, TRUE)
    /\ LET a == [NoRequest EXCEPT !.seq = ar.seq + 1,
                                  !.method = call.method, !.path = call.path,
                                  !.data = call.data, !.called = now]
       IN  ar' = IF pc'[c] = "passed" THEN Step(a, "rate_limit") ELSE a

\* Line 192: the suspended _rate_limit returns.
ApiRateLimitWake(c) ==
    /\ RateLimitWake(c)
    /\ ar' = Step(ar, "rate_limit")

\* Lines 195-200: the headers are signed over the path without its query string,
\* the URL keeps it, and the timeout block is entered.
SignHeaders(c) ==
    /\ pc[c] = "passed"
    /\ LET signature_path == SplitQuery(ar.path)
       IN  ar' = [Step(ar, "sign") EXCEPT !.headers = Some(GenerateSignature(signature_path)),
                                         !.url = Some(<<BASE_URL>> \o ar.path),
                                         !.block = Some(now)]
    /\ pc' = [pc EXCEPT ![c] = "signed"]
    /\ UNCHANGED <<now, last_api_call, rl, lastPermit>>

\* Lines 202-206: one GET or one POST is sent, and the task awaits the response.
Send(c) ==
    /\ pc[c] = "signed"
    /\ ar' = [Step(ar, "send") EXCEPT !.sends = @ + 1]
    /\ pc' = [pc EXCEPT ![c] = "sending"]
    /\ UNCHANGED <<now, last_api_call, rl, lastPermit>>

\* The body decoded before the status is looked at.
AfterResponseDecodeFirst == "decoding"

\* The step that follows the arrival of the response: the status check.
AfterResponse == "status"

\* The response arrives before the deadline of the timeout block.
Receive(c, response) ==
    /\ pc[c] = "sending"
    /\ now < ar.block[1] + Timeout
    /\ ar' = [ar EXCEPT !.response = Some(response)]
    /\ pc' = [pc EXCEPT ![c] = AfterResponse]
    /\ UNCHANGED <<now, last_api_call, rl, lastPermit>>

\* Lines 207-209: status 401 or 403 raises the authentication error.
CheckStatus(c) ==
    /\ pc[c] = "status"
    /\ LET a == Step(ar, "status")
       IN  IF ar.response[1].status \in {401, 403}
           THEN Finish(c, a, Raise(AuthenticationError,
                                   <<"Invalid API key or unauthorized access">>))
           ELSE /\ ar' = a
                /\ pc' = [pc EXCEPT ![c] = "decoding"]
    /\ UNCHANGED <<now, last_api_call, rl, lastPermit>>

\* Lines 227-229: aiohttp.ClientError and socket.gaierror become the
\* communication error.
OnClientError(c, a) ==
    Finish(c, a, Raise(CommunicationError, <<"Error fetching information - ">>))

\* Line 210: response.json() reads and decodes the body. A content type that is
\* not JSON raises aiohttp's ContentTypeError, a ClientError; a body that is not
\* JSON raises json.JSONDecodeError, which no handler of _api_request catches.
DecodeJson(c) ==
    /\ pc[c] = "decoding"
    /\ now < ar.block[1] + Timeout
    /\ LET a == Step(ar, "json")
           body == ar.response[1].body
       IN  CASE body.kind = "json" ->
                  /\ ar' = [a EXCEPT !.result = Some(body.envelope)]
                  /\ pc' = [pc EXCEPT ![c] = "raise_for_status"]
             [] body.kind = "wrong_content_type" ->
                  OnClientError(c, [a EXCEPT !.fault = "content_type"])
             [] body.kind = "not_json" ->
                  Finish(c, [a EXCEPT !.fault = "json_decode"],
                         Raise("JSONDecodeError", <<>>))
    /\ UNCHANGED <<now, last_api_call, rl, lastPermit>>

\* Line 212: response.raise_for_status() raises ClientResponseError, a
\* ClientError, for a status of 400 and above.
RaiseForStatus(c) ==
    /\ pc[c] = "raise_for_status"
    /\ LET a == Step(ar, "raise_for_status")
       IN  IF ar.response[1].status >= 400
           THEN OnClientError(c, [a EXCEPT !.fault = "http_status"])
           ELSE /\ ar' = a
                /\ pc' = [pc EXCEPT ![c] = "errno"]
    /\ UNCHANGED <<now, last_api_call, rl, lastPermit>>

\* The error text without the vendor's message.
ApiErrorTextWithoutMsg(api_msg) == <<"API error: ">>

\* Line 219: msg = f"API error: {api_msg}"
ApiErrorText(api_msg) == <<"API error: ">> \o api_msg

\* An envelope taken for an error because of its msg, whatever its errno.
ErrnoOrMsgIsError(result) ==
    \/ result.errno # Some(0)
    \/ result.msg # Nothing /\ IsAuthMessage(result.msg[1])

\* An absent errno taken for success: result.get("errno", 0) != 0
ErrnoPresentIsError(result) == result.errno \notin {Nothing, Some(0)}

\* Line 215: result.get("errno") != 0
ErrnoIsError(result) == result.errno # Some(0)

\* Lines 215-222: the envelope's errno decides between the result and an error;
\* result.get("errno") of an envelope without errno is None, which is not 0.
CheckErrno(c) ==
    /\ pc[c] = "errno"
    /\ LET a == Step(ar, "errno")
           result == ar.result[1]
           api_msg == IF result.msg = Nothing THEN <<"Unknown error">> ELSE result.msg[1]
       IN  IF ErrnoIsError(result)
           THEN IF IsAuthMessage(api_msg)
                THEN Finish(c, a, Raise(AuthenticationError, api_msg))
                ELSE Finish(c, a, Raise(ApiError, ApiErrorText(api_msg)))
           ELSE Finish(c, a, Return(result))
    /\ UNCHANGED <<now, last_api_call, rl, lastPermit>>

\* Line 459: what async_set_scheduler returns for the envelope that
\* _api_request returned: result.get("errno") == 0
SetSchedulerResult(result) == result.errno = Some(0)

\* TimeoutError left uncaught.
OnTimeoutUncaught(c, a) ==
    Finish(c, a, Raise("TimeoutError", <<>>))

\* The request sent again after a timeout.
OnTimeoutRetry(c, a) ==
    /\ ar' = [a EXCEPT !.block = Some(now)]
    /\ pc' = [pc EXCEPT ![c] = "signed"]

\* Lines 224-226: the timeout block's deadline passes while the task awaits the
\* response or the body; TimeoutError becomes the communication error.
OnTimeout(c, a) ==
    Finish(c, a, Raise(CommunicationError, <<"Timeout error fetching information - ">>))

TimeoutFires(c) ==
    /\ pc[c] \in {"sending", "decoding"}
    /\ now >= ar.block[1] + Timeout
    /\ OnTimeout(c, [ar EXCEPT !.fault = "timeout"])
    /\ UNCHANGED <<now, last_api_call, rl, lastPermit>>

\* The transport fails while the task awaits the response or the body: a
\* connection error (aiohttp.ClientError) or a DNS failure (socket.gaierror).
TransportFails(c, fault) ==
    /\ pc[c] \in {"sending", "decoding"}
    /\ OnClientError(c, [ar EXCEPT !.fault = fault])
    /\ UNCHANGED <<now, last_api_call, rl, lastPermit>>

\* Time passes while the task is suspended or idle, in steps of one tick or of
\* all but the last tick of the timeout. Only the instants at which the next step
\* can differ are kept: an idle task's next call is decided by whether a second
\* has passed since the last call; a sleeping task resumes at its wake-up time or
\* one tick late; inside the timeout block the deadline is approached and then
\* met, and cannot be passed without the timeout firing.
Delays == {1, Timeout - 1}

Elapse(c, d) ==
    /\ CASE pc[c] = "idle" ->
               d = 1 /\ last_api_call # 0 /\ now < last_api_call + OneSecond
         [] pc[c] = "sleeping" ->
               d = 1 /\ now <= rl[c].wake
         [] pc[c] \in {"sending", "decoding"} ->
               /\ now + d <= ar.block[1] + Timeout
               /\ d = 1 => now + 1 = ar.block[1] + Timeout
         [] OTHER -> FALSE
    /\ now' = now + d
    /\ UNCHANGED <<last_api_call, pc, rl, lastPermit, ar>>

\* ------------------------------------------------------- schedule periods

\* The vendor's schedule holds at most this many groups.
MaxGroups == 2

\* A group is a dict: a function from its keys to their values. The hours and
\* minutes the vendor's groups are drawn from.
Hours == {0, 9, 22}
Minutes == {0, 30}

Period(sh, sm, eh, em) ==
    [enable |-> 1, startHour |-> sh, startMinute |-> sm, endHour |-> eh,
     endMinute |-> em, workMode |-> "SelfUse", extraParam |-> [minSocOnGrid |-> 10]]

\* Groups that lack keys: no time fields at all, and hours without minutes.
PartialGroups ==
    { [enable |-> 0, workMode |-> "Backup"],
      [enable |-> 1, startHour |-> 9, endHour |-> 9, workMode |-> "SelfUse"] }

Groups ==
    {Period(sh, sm, eh, em) : sh \in Hours, sm \in Minutes, eh \in Hours, em \in Minutes}
    \cup PartialGroups

\* The lists of at most n groups.
RECURSIVE GroupLists(_)
GroupLists(n) ==
    IF n = 0 THEN {<<>>}
    ELSE LET shorter == GroupLists(n - 1)
         IN  shorter \cup {Append(l, g) : l \in {s \in shorter : Len(s) = n - 1}, g \in Groups}

\* What the vendor answers under "result" to scheduler/get: a dict with the
\* groups, or one without the key.
Schedules == {[enable |-> 1, groups |-> l] : l \in GroupLists(MaxGroups)} \cup {[enable |-> 0]}

\* datetime.now().astimezone(): the hour and minute of the wall clock.
WallTimes == [hour : Hours, minute : Minutes]

\* d.get(k, default)
Get(d, k, default) == IF k \in DOMAIN d THEN d[k] ELSE default

\* d.get(j) == d.get(k), where a missing key gives None
SameGet(d, j, k) ==
    IF j \in DOMAIN d /\ k \in DOMAIN d THEN d[j] = d[k]
    ELSE j \notin DOMAIN d /\ k \notin DOMAIN d

\* A filter that compares the hours only.
IsPlaceholderByHour(g) == SameGet(g, "startHour", "endHour")

\* Lines 385-386: the condition under which async_get_schedule_groups drops g.
IsPlaceholder(g) ==
    SameGet(g, "startHour", "endHour") /\ SameGet(g, "startMinute", "endMinute")

\* Lines 381-388: the list comprehension of async_get_schedule_groups.
FilterPlaceholders(groups) == SelectSeq(groups, LAMBDA g : ~IsPlaceholder(g))

\* Lines 409-410.
StartMinutes(group) == Get(group, "startHour", 0) * 60 + Get(group, "startMinute", 0)
EndMinutes(group) == Get(group, "endHour", 23) * 60 + Get(group, "endMinute", 59)

\* A period that spans midnight treated like any other.
CoversWithoutWrap(group, current_minutes) ==
    StartMinutes(group) <= current_minutes /\ current_minutes <= EndMinutes(group)

\* Lines 413-417: whether the loop of find_current_period_index returns at group.
Covers(group, current_minutes) ==
    LET start_minutes == StartMinutes(group)
        end_minutes == EndMinutes(group)
    IN  IF end_minutes < start_minutes
        THEN current_minutes >= start_minutes \/ current_minutes <= end_minutes
        ELSE start_minutes <= current_minutes /\ current_minutes <= end_minutes

\* Lines 408-419: the loop over enumerate(groups) from position i (1-based
\* here; the index returned is 0-based), and the final return None.
RECURSIVE FindFrom(_, _, _)
FindFrom(groups, i, current_minutes) ==
    IF i > Len(groups) THEN Nothing
    ELSE IF Covers(groups[i], current_minutes) THEN Some(i - 1)
    ELSE FindFrom(groups, i + 1, current_minutes)

\* find_current_period_index(groups), at the wall-clock time w.
FindCurrentPeriodIndex(groups, w) == FindFrom(groups, 1, w.hour * 60 + w.minute)

\* What an operation gave back to its caller: the operation, whether it raised,
\* the requests it issued, the schedule it fetched and its return value.
NoOutput == [op |-> "none", raised |-> FALSE, requests |-> <<>>,
             fetched |-> Nothing, value |-> Nothing, refreshed |-> FALSE]

\* data.get("hasBattery", False), as the vendor reports it.
HasBatteryValues == BOOLEAN

\* Lines 370-376: async_get_scheduler returns result.get("result", {}) of a
\* successful request; a failed request raises.
AsyncGetScheduler(ok) ==
    /\ wp.stage = "idle"
    /\ out' = IF ok
              THEN [NoOutput EXCEPT !.op = "async_get_scheduler",
                                    !.requests = <<SchedulerGetPath>>,
                                    !.fetched = Some(schedule),
                                    !.value = Some(schedule)]
              ELSE [NoOutput EXCEPT !.op = "async_get_scheduler", !.raised = TRUE,
                                    !.requests = <<SchedulerGetPath>>]
    /\ UNCHANGED <<wall, schedule, has_battery, real_time, wp>>

\* Lines 378-388: async_get_schedule_groups.
AsyncGetScheduleGroups(ok) ==
    /\ wp.stage = "idle"
    /\ out' = IF ok
              THEN [NoOutput EXCEPT !.op = "async_get_schedule_groups",
                                    !.requests = <<SchedulerGetPath>>,
                                    !.fetched = Some(schedule),
                                    !.value = Some(FilterPlaceholders(Get(schedule, "groups", <<>>)))]
              ELSE [NoOutput EXCEPT !.op = "async_get_schedule_groups", !.raised = TRUE,
                                    !.requests = <<SchedulerGetPath>>]
    /\ UNCHANGED <<wall, schedule, has_battery, real_time, wp>>

\* Lines 231-243: async_get_data issues the device-detail request, the real-time
\* request and, for a device with a battery, the schedule request; failed is the
\* number of the request that fails (0: none) and ends the call.
AsyncGetData(failed) ==
    /\ wp.stage = "idle"
    /\ LET wanted == <<DetailPath, RealQueryPath>>
                     \o (IF has_battery THEN <<SchedulerGetPath>> ELSE <<>>)
           scheduler_groups ==
               IF has_battery
               THEN Some(FilterPlaceholders(Get(schedule, "groups", <<>>)))
               ELSE Nothing
       IN  /\ failed <= Len(wanted)
           /\ out' = IF failed = 0
                     THEN [NoOutput EXCEPT
                             !.op = "async_get_data",
                             !.requests = wanted,
                             !.fetched = IF has_battery THEN Some(schedule) ELSE Nothing,
                             !.value = Some([device_info |-> [has_battery |-> has_battery],
                                             real_time |-> "FoxessRealTimeData",
                                             scheduler_groups |-> scheduler_groups])]
                     ELSE [NoOutput EXCEPT !.op = "async_get_data", !.raised = TRUE,
                                           !.requests = SubSeq(wanted, 1, failed)]
    /\ UNCHANGED <<wall, schedule, has_battery, real_time, wp>>

\* find_current_period_index applied to the vendor's groups.
FindCurrent ==
    /\ wp.stage = "idle"
    /\ LET groups == Get(schedule, "groups", <<>>)
       IN  out' = [NoOutput EXCEPT !.op = "find_current_period_index",
                                   !.fetched = Some(schedule),
                                   !.value = Some(FindCurrentPeriodIndex(groups, wall))]
    /\ UNCHANGED <<wall, schedule, has_battery, real_time, wp>>

\* ------------------------------------------ the number entity's write path

\* int(value) of the values the number entity is set to.
NumberValues == {20}
\* entity_description.value_attr of the two number entities.
ValueAttrs == {"min_soc", "min_soc_on_grid"}

\* d[k] = v
Put(d, k, v) == [x \in DOMAIN d \cup {k} |-> IF x = k THEN v ELSE d[x]]

\* The write path when no update is under way.
NoUpdate == [stage |-> "idle", attr |-> "", value |-> 0, fetched |-> Nothing,
             groups |-> <<>>]

\* number.py lines 139-154: the default period created when the schedule has none.
NumberDefaultGroup(attr, value) ==
    [enable |-> 1, startHour |-> 0, startMinute |-> 0, endHour |-> 23,
     endMinute |-> 59, workMode |-> "SelfUse",
     minSoc |-> IF attr = "min_soc" THEN value ELSE 10,
     minSocOnGrid |-> IF attr = "min_soc_on_grid" THEN value ELSE 10]

\* api.py lines 393-400: minimal_group(group).
MinimalGroup(group) ==
    [enable |-> Get(group, "enable", 1),
     startHour |-> Get(group, "startHour", 0),
     startMinute |-> Get(group, "startMinute", 0),
     endHour |-> Get(group, "endHour", 23),
     endMinute |-> Get(group, "endMinute", 59),
     workMode |-> Get(group, "workMode", "SelfUse")]

\* The key set in minimal_group(group) instead of in the group that was read.
NumberUpdateMinimalGroup(group, attr, value) ==
    IF attr = "min_soc" THEN Put(MinimalGroup(group), "minSoc", value)
    ELSE Put(MinimalGroup(group), "minSocOnGrid", value)

\* number.py lines 157-161: the key set in every existing group.
NumberUpdateGroup(group, attr, value) ==
    IF attr = "min_soc" THEN Put(group, "minSoc", value)
    ELSE IF attr = "min_soc_on_grid" THEN Put(group, "minSocOnGrid", value)
    ELSE group

\* number.py lines 135-161: the groups to write, from the schedule that was read.
NumberModify(current_schedule, attr, value) ==
    LET groups == Get(current_schedule, "groups", <<>>)
    IN  IF groups = <<>>
        THEN <<NumberDefaultGroup(attr, value)>>
        ELSE [i \in 1..Len(groups) |-> NumberUpdateGroup(groups[i], attr, value)]

\* number.py lines 114-131: async_set_native_value is called and awaits
\* client.async_get_scheduler().
NumberSetValue(attr, value) ==
    /\ wp.stage = "idle"
    /\ wp' = [NoUpdate EXCEPT !.stage = "reading", !.attr = attr, !.value = value]
    /\ out' = NoOutput
    /\ UNCHANGED <<wall, schedule, has_battery, real_time>>

\* number.py lines 131-164: the read returns; the groups are modified and passed
\* to client.async_set_scheduler(groups, enable=True). A read that raises is
\* logged and re-raised (lines 175-177).
NumberRead(ok) ==
    /\ wp.stage = "reading"
    /\ IF ok
       THEN /\ wp' = [wp EXCEPT !.stage = "writing",
                                !.fetched = Some(schedule),
                                !.groups = NumberModify(schedule, wp.attr, wp.value)]
            /\ UNCHANGED out
       ELSE /\ wp' = NoUpdate
            /\ out' = [NoOutput EXCEPT !.op = "async_set_native_value", !.raised = TRUE,
                                       !.requests = <<SchedulerGetPath>>]
    /\ UNCHANGED <<wall, schedule, has_battery, real_time>>

\* number.py lines 164-177 with api.py lines 439-459: the write returns True and
\* the coordinator is asked to refresh, or it raises and the error is re-raised.
NumberWritten(ok) ==
    /\ wp.stage = "writing"
    /\ wp' = NoUpdate
    /\ out' = [NoOutput EXCEPT !.op = "async_set_native_value", !.raised = ~ok,
                               !.requests = <<SchedulerGetPath, SchedulerEnablePath>>,
                               !.fetched = wp.fetched,
                               !.value = Some(wp.groups),
                               !.refreshed = ok]
    /\ UNCHANGED <<wall, schedule, has_battery, real_time>>

\* -------------------------------------------------------------- telemetry

\* The real-time response carries at most this many variables per device.
MaxDatas == 2

\* A JSON value of the payload: a number, null, a string (a sequence of
\* characters) or a list.
Num(n) == [t |-> "num", v |-> n, s |-> <<>>]
Null == [t |-> "null", v |-> 0, s |-> <<>>]
Str(chars) == [t |-> "str", v |-> 0, s |-> chars]
EmptyList == [t |-> "list", v |-> 0, s |-> <<>>]

\* The outcome of a conversion: a value, or the exception it raises.
Ok(x) == [exc |-> "", v |-> x]
Err(exc) == [exc |-> exc, v |-> 0]

Digits == <<"0", "1", "2", "3", "4", "5", "6", "7", "8", "9">>
IsDigit(ch) == \E d \in 1..Len(Digits) : Digits[d] = ch
DigitValue(ch) == (CHOOSE d \in 1..Len(Digits) : Digits[d] = ch) - 1

\* The number a string of decimal digits denotes.
RECURSIVE ParseDigits(_)
ParseDigits(chars) ==
    IF chars = <<>> THEN 0
    ELSE 10 * ParseDigits(SubSeq(chars, 1, Len(chars) - 1)) + DigitValue(chars[Len(chars)])

\* The decimal text of a natural number.
RECURSIVE FormatDigits(_)
FormatDigits(n) ==
    IF n < 10 THEN <<Digits[n + 1]>>
    ELSE Append(FormatDigits(n \div 10), Digits[(n % 10) + 1])

\* Whether a string is the decimal text of a number.
IsNumeric(chars) == chars # <<>> /\ \A i \in 1..Len(chars) : IsDigit(chars[i])

\* float(val) and int(val) of a value that is not None: a number converts to
\* itself, the decimal text of a number to that number; any other string raises
\* ValueError and a list TypeError.
Convert(val) ==
    CASE val.t = "num" -> Ok(val.v)
      [] val.t = "str" -> IF IsNumeric(val.s) THEN Ok(ParseDigits(val.s))
                          ELSE Err("ValueError")
      [] OTHER -> Err("TypeError")

\* str(val) of a value that is not None.
ToText(val) ==
    CASE val.t = "num" -> FormatDigits(val.v)
      [] val.t = "str" -> val.s
      [] OTHER -> <<"[", "]">>

\* A node of the payload's structure: a list, null, or a dict that may have the
\* key "datas".
JList(items) == [kind |-> "list", items |-> items, datas |-> Nothing]
JNull == [kind |-> "null", items |-> <<>>, datas |-> Nothing]
JDevice(datas) == [kind |-> "dict", items |-> <<>>, datas |-> datas]

\* An entry of "datas": a dict that may have the keys "variable" and "value",
\* or a value that is no dict.
Variable(name, value) == [kind |-> "dict", variable |-> name, value |-> value]
NotADict == [kind |-> "null", variable |-> Nothing, value |-> Nothing]

\* Lines 268-270: result.get("result", []), and its first element if it is a
\* list that has one.
FirstDevice(result) ==
    LET data == IF result = Nothing THEN JList(<<>>) ELSE result[1]
    IN  IF data.kind = "list" /\ Len(data.items) > 0 THEN data.items[1] ELSE data

\* Lines 272-276: the loop that fills variables; var.get on a value that is no
\* dict raises AttributeError.
RECURSIVE CollectVariables(_, _)
CollectVariables(datas, variables) ==
    IF datas = <<>> THEN Ok(variables)
    ELSE LET var == Head(datas)
             name == IF var.variable = Nothing THEN "" ELSE var.variable[1]
             value == IF var.value = Nothing THEN Num(0) ELSE var.value[1]
         IN  IF var.kind # "dict" THEN Err("AttributeError")
             ELSE CollectVariables(Tail(datas), Put(variables, name, value))

\* Lines 279-281: safe_float.
SafeFloat(variables, key, default) ==
    LET val == Get(variables, key, Num(default))
    IN  IF val.t # "null" THEN Convert(val) ELSE Ok(default)

\* Lines 283-288: safe_int.
SafeInt(variables, key, default) ==
    LET val == Get(variables, key, Num(default))
        converted == IF val.t # "null" THEN Convert(val) ELSE Ok(default)
    IN  IF converted.exc \in {"ValueError", "TypeError"} THEN Ok(default) ELSE converted

\* str(val) applied to None as well.
SafeStrOfNone(variables, key, default) ==
    LET val == Get(variables, key, Str(default))
    IN  IF val.t # "null" THEN Ok(ToText(val)) ELSE Ok(<<"N", "o", "n", "e">>)

\* Lines 290-292: safe_str.
SafeStr(variables, key, default) ==
    LET val == Get(variables, key, Str(default))
    IN  IF val.t # "null" THEN Ok(ToText(val)) ELSE Ok(default)

\* The operands the other way round.
BatteryPowerReversed(charge, discharge) == discharge - charge

\* Lines 301-303: safe_float("batChargePower") - safe_float("batDischargePower").
BatteryPower(charge, discharge) == charge - discharge

\* Lines 297-366: the fields of FoxessRealTimeData in the order of the call,
\* with the accessor and the variable each is read with.
TelemetryFields ==
    << <<"pv_power", "float", "pvPower">>,
       <<"battery_soc", "float", "SoC">>,
       <<"battery_power", "difference", "">>,
       <<"grid_power", "float", "meterPower">>,
       <<"load_power", "float", "loadsPower">>,
       <<"feed_in_power", "float", "feedinPower">>,
       <<"grid_consumption_power", "float", "gridConsumptionPower">>,
       <<"generation_power", "float", "generationPower">>,
       <<"pv1_volt", "float", "pv1Volt">>,
       <<"pv1_current", "float", "pv1Current">>,
       <<"pv1_power", "float", "pv1Power">>,
       <<"pv2_volt", "float", "pv2Volt">>,
       <<"pv2_current", "float", "pv2Current">>,
       <<"pv2_power", "float", "pv2Power">>,
       <<"pv3_volt", "float", "pv3Volt">>,
       <<"pv3_current", "float", "pv3Current">>,
       <<"pv3_power", "float", "pv3Power">>,
       <<"pv4_volt", "float", "pv4Volt">>,
       <<"pv4_current", "float", "pv4Current">>,
       <<"pv4_power", "float", "pv4Power">>,
       <<"eps_power", "float", "epsPower">>,
       <<"eps_current_r", "float", "epsCurrentR">>,
       <<"eps_volt_r", "float", "epsVoltR">>,
       <<"eps_power_r", "float", "epsPowerR">>,
       <<"r_current", "float", "RCurrent">>,
       <<"r_volt", "float", "RVolt">>,
       <<"r_freq", "float", "RFreq">>,
       <<"r_power", "float", "RPower">>,
       <<"ambient_temp", "float", "ambientTemperation">>,
       <<"inverter_temp", "float", "invTemperation">>,
       <<"battery_temp", "float", "batTemperature">>,
       <<"inv_bat_volt", "float", "invBatVolt">>,
       <<"inv_bat_current", "float", "invBatCurrent">>,
       <<"inv_bat_power", "float", "invBatPower">>,
       <<"bat_charge_power", "float", "batChargePower">>,
       <<"bat_discharge_power", "float", "batDischargePower">>,
       <<"bat_volt", "float", "batVolt">>,
       <<"bat_current", "float", "batCurrent">>,
       <<"meter_power_2", "float", "meterPower2">>,
       <<"generation_total", "float", "generation">>,
       <<"residual_energy", "residual", "ResidualEnergy">>,
       <<"energy_throughput", "float", "energyThroughput">>,
       <<"grid_consumption_total", "float", "gridConsumption">>,
       <<"loads_total", "float", "loads">>,
       <<"feed_in_total", "float", "feedin">>,
       <<"charge_energy_total", "float", "chargeEnergyToTal">>,
       <<"discharge_energy_total", "float", "dischargeEnergyToTal">>,
       <<"pv_energy_total", "float", "PVEnergyTotal">>,
       <<"running_state", "str", "runningState">>,
       <<"battery_status", "str", "batStatus">>,
       <<"battery_status_name", "str", "batStatusV2">>,
       <<"current_fault", "str", "currentFault">>,
       <<"current_fault_count", "int", "currentFaultCount">> >>
TelemetryFieldNames == {TelemetryFields[i][1] : i \in 1..Len(TelemetryFields)}

\* The position of a field in the call.
TelemetryIndex ==
    [f \in TelemetryFieldNames |-> CHOOSE i \in 1..Len(TelemetryFields) : TelemetryFields[i][1] = f]

\* The value of one argument of the FoxessRealTimeData call.
FieldValue(variables, field) ==
    LET kind == field[2]
        key == field[3]
    IN  CASE kind = "float" -> SafeFloat(variables, key, 0)
          [] kind = "str" -> SafeStr(variables, key, <<>>)
          [] kind = "int" -> SafeInt(variables, key, 0)
          [] kind = "residual" -> SafeFloat(variables, key, 0)
          [] kind = "difference" ->
                LET charge == SafeFloat(variables, "batChargePower", 0)
                    discharge == SafeFloat(variables, "batDischargePower", 0)
                IN  IF charge.exc # "" THEN charge
                    ELSE IF discharge.exc # "" THEN discharge
                    ELSE Ok(BatteryPower(charge.v, discharge.v))

\* Lines 294-368: residual_energy_raw and then the arguments are evaluated in
\* order; the first accessor that raises ends the call.
BuildRecord(variables) ==
    LET residual_energy_raw == SafeFloat(variables, "ResidualEnergy", 0)
        args == [i \in 1..Len(TelemetryFields) |-> FieldValue(variables, TelemetryFields[i])]
        failing == {i \in 1..Len(TelemetryFields) : args[i].exc # ""}
        first == CHOOSE i \in failing : \A j \in failing : i <= j
    IN  IF residual_energy_raw.exc # "" THEN residual_energy_raw
        ELSE IF failing # {} THEN args[first]
        ELSE Ok([f \in TelemetryFieldNames \cup {"raw_variables"} |->
                    IF f = "raw_variables" THEN variables
                    ELSE args[TelemetryIndex[f]].v])

\* Lines 267-368: the decoding of the envelope's "result". data.get on a list or
\* on None raises AttributeError; a "datas" that is null cannot be iterated.
DecodeTelemetry(result) ==
    LET data == FirstDevice(result)
        datas == IF data.datas = Nothing THEN JList(<<>>) ELSE data.datas[1]
        collected == CollectVariables(datas.items, <<>>)
    IN  IF data.kind # "dict" THEN Err("AttributeError")
        ELSE IF datas.kind # "list" THEN Err("TypeError")
        ELSE IF collected.exc # "" THEN collected
        ELSE BuildRecord(collected.v)

\* The variables and values the vendor's devices report.
VariableNames == {"SoC", "batChargePower", "batDischargePower", "ResidualEnergy",
                  "currentFaultCount", "runningState", "todayYield"}
VariableValues == {Num(30), Num(50), Null, Str(<<"1", "2">>), Str(<<"a">>), EmptyList}

\* The entries of "datas": every name with every value or without "value", an
\* entry without "variable", and an entry that is no dict.
DataEntries ==
    {Variable(Some(name), value) : name \in VariableNames,
                                   value \in {Nothing} \cup {Some(v) : v \in VariableValues}}
    \cup {Variable(Nothing, Some(Num(30))), NotADict}

\* The device lists with one device that reports at most MaxDatas variables,
\* and the other shapes of "result": the key absent, null, an empty list, a list
\* whose first element is null, a device outside any list, two devices, a device
\* without "datas" and one whose "datas" is null.
RealTimeResults ==
    {Some(JList(<<JDevice(Some(JList(datas)))>>)) : datas \in ListsOf(DataEntries, MaxDatas)}
    \cup { Nothing, Some(JNull), Some(JList(<<>>)), Some(JList(<<JNull>>)),
           Some(JDevice(Some(JList(<<Variable(Some("SoC"), Some(Num(50)))>>)))),
           Some(JList(<<JDevice(Some(JList(<<Variable(Some("SoC"), Some(Num(50)))>>))),
                        JDevice(Some(JList(<<Variable(Some("SoC"), Some(Num(30)))>>)))>>)),
           Some(JList(<<JDevice(Nothing)>>)),
           Some(JList(<<JDevice(Some(JNull))>>)) }

\* Lines 262-368: async_get_real_time_data issues the real-time request; a
\* request that fails raises, and the "result" of one that succeeds is decoded.
AsyncGetRealTimeData(ok) ==
    /\ out' = IF ok
              THEN LET decoded == DecodeTelemetry(real_time)
                   IN  [NoOutput EXCEPT !.op = "async_get_real_time_data",
                                        !.raised = decoded.exc # "",
                                        !.requests = <<RealQueryPath>>,
                                        !.fetched = Some([result |-> real_time]),
                                        !.value = Some(decoded)]
              ELSE [NoOutput EXCEPT !.op = "async_get_real_time_data", !.raised = TRUE,
                                    !.requests = <<RealQueryPath>>]
    /\ UNCHANGED <<wall, schedule, has_battery, real_time, wp, sel>>

\* ------------------------------------------ the select entity's write path

\* select.py lines 21-27.
WORK_MODES == {"SelfUse", "ForceCharge", "ForceDischarge", "Backup", "FeedInFirst"}
\* The options async_select_option is called with; "Eco" is no work mode.
SelectOptions == {"ForceCharge", "Eco"}

\* select.py line 77 and the entity's update when none is under way.
NoSelect == [current_mode |-> Nothing, stage |-> "idle", option |-> "",
             fetched |-> Nothing, groups |-> <<>>]

\* select.py lines 104-108: coordinator.data, the dict async_get_data returned,
\* has no key "battery_settings", so both values are the literal 10.
SelectMinSoc == 10
SelectMinSocOnGrid == 10

\* select.py lines 115-126: the default period created when the schedule has none.
SelectDefaultGroup(option) ==
    [enable |-> 1, startHour |-> 0, startMinute |-> 0, endHour |-> 23,
     endMinute |-> 59, workMode |-> option,
     minSoc |-> SelectMinSoc, minSocOnGrid |-> SelectMinSocOnGrid]

\* select.py lines 111-130: the groups to write, from the schedule that was read.
SelectModify(current_schedule, option) ==
    LET groups == Get(current_schedule, "groups", <<>>)
    IN  IF groups = <<>>
        THEN <<SelectDefaultGroup(option)>>
        ELSE [i \in 1..Len(groups) |-> Put(groups[i], "workMode", option)]

\* select.py lines 86-101: an option that is no work mode is logged and the call
\* returns; any other makes the call await client.async_get_scheduler().
SelectOption(option) ==
    /\ wp.stage = "idle"
    /\ sel.stage = "idle"
    /\ IF option \notin WORK_MODES
       THEN /\ sel' = sel
            /\ out' = [NoOutput EXCEPT !.op = "async_select_option"]
       ELSE /\ sel' = [sel EXCEPT !.stage = "reading", !.option = option]
            /\ out' = NoOutput
    /\ UNCHANGED <<wall, schedule, has_battery, real_time, wp>>

\* select.py lines 101-133: the read returns; the groups are modified and passed
\* to client.async_set_scheduler(groups, enable=True). A read that raises is
\* logged and re-raised (lines 143-145).
SelectRead(ok) ==
    /\ sel.stage = "reading"
    /\ IF ok
       THEN /\ sel' = [sel EXCEPT !.stage = "writing",
                                  !.fetched = Some(schedule),
                                  !.groups = SelectModify(schedule, sel.option)]
            /\ out' = [out EXCEPT !.requests = <<SchedulerGetPath>>]
       ELSE /\ sel' = [NoSelect EXCEPT !.current_mode = sel.current_mode]
            /\ out' = [NoOutput EXCEPT !.op = "async_select_option", !.raised = TRUE,
                                       !.requests = <<SchedulerGetPath>>]
    /\ UNCHANGED <<wall, schedule, has_battery, real_time, wp>>

\* The refresh requested whether or not the write succeeded.
RefreshAlways(success) == TRUE

\* select.py lines 135-139: the refresh is requested if success.
RefreshIf(success) == success

\* select.py lines 133-145 with api.py lines 439-459: the write returns True,
\* _current_mode is set and the coordinator is asked to refresh, or the write
\* raises and the error is re-raised.
SelectWritten(ok) ==
    /\ sel.stage = "writing"
    /\ sel' = [NoSelect EXCEPT !.current_mode = IF ok THEN Some(sel.option)
                                                 ELSE sel.current_mode]
    /\ out' = [NoOutput EXCEPT !.op = "async_select_option", !.raised = ~ok,
                               !.requests = Append(out.requests, SchedulerEnablePath),
                               !.fetched = sel.fetched,
                               !.value = Some(sel.groups),
                               !.refreshed = RefreshIf(ok)]
    /\ UNCHANGED <<wall, schedule, has_battery, real_time, wp>>

\* --------------------------------------------- two updates on one client

\* api.py lines 450-458: the body of scheduler/enable carries the groups and
\* "enable": 1. The vendor keeps what was submitted: a later scheduler/get
\* answers with these groups.
VendorStores(current_schedule, groups) ==
    Put(Put(current_schedule, "groups", groups), "enable", 1)

\* number.py lines 164-177: the number entity's write returns or raises while
\* another update may be under way; the update stays finished.
NumberWrittenStored(ok) ==
    /\ wp.stage = "writing"
    /\ wp' = [wp EXCEPT !.stage = IF ok THEN "done" ELSE "failed"]
    /\ schedule' = IF ok THEN VendorStores(schedule, wp.groups) ELSE schedule
    /\ out' = [NoOutput EXCEPT !.op = "async_set_native_value", !.raised = ~ok,
                               !.requests = <<SchedulerGetPath, SchedulerEnablePath>>,
                               !.fetched = wp.fetched,
                               !.value = Some(wp.groups),
                               !.refreshed = ok]
    /\ UNCHANGED <<wall, has_battery, real_time, sel>>

\* select.py lines 133-145: the select entity's write returns or raises while
\* another update may be under way; the update stays finished.
SelectWrittenStored(ok) ==
    /\ sel.stage = "writing"
    /\ sel' = [sel EXCEPT !.stage = IF ok THEN "done" ELSE "failed",
                          !.current_mode = IF ok THEN Some(sel.option) ELSE @]
    /\ schedule' = IF ok THEN VendorStores(schedule, sel.groups) ELSE schedule
    /\ out' = [NoOutput EXCEPT !.op = "async_select_option", !.raised = ~ok,
                               !.requests = <<SchedulerGetPath, SchedulerEnablePath>>,
                               !.fetched = sel.fetched,
                               !.value = Some(sel.groups),
                               !.refreshed = RefreshIf(ok)]
    /\ UNCHANGED <<wall, has_battery, real_time, wp>>

\* ------------------------------------------------- the default schedule group

\* The arguments create_default_schedule_group is called with.
WorkModeInputs == {"SelfUse", "Backup"}
MinSocInputs == {10, 55}

\* A default group that ends at 23:00.
CreateDefaultEndsAt23(work_mode, min_soc_on_grid) ==
    [enable |-> 1, startHour |-> 0, startMinute |-> 0, endHour |-> 23,
     endMinute |-> 0, workMode |-> work_mode,
     extraParam |-> [minSocOnGrid |-> min_soc_on_grid]]

\* api.py lines 427-437.
CreateDefaultScheduleGroup(work_mode, min_soc_on_grid) ==
    [enable |-> 1, startHour |-> 0, startMinute |-> 0, endHour |-> 23,
     endMinute |-> 59, workMode |-> work_mode,
     extraParam |-> [minSocOnGrid |-> min_soc_on_grid]]

\* create_default_schedule_group is called, and find_current_period_index is
\* applied to the list of the one group it returned.
CreateDefault(work_mode, min_soc_on_grid) ==
    /\ wp.stage = "idle"
    /\ sel.stage = "idle"
    /\ LET group == CreateDefaultScheduleGroup(work_mode, min_soc_on_grid)
       IN  out' = [NoOutput EXCEPT
                     !.op = "create_default_schedule_group",
                     !.value = Some([work_mode |-> work_mode,
                                     min_soc_on_grid |-> min_soc_on_grid,
                                     group |-> group,
                                     index |-> FindCurrentPeriodIndex(<<group>>, wall)])]
    /\ UNCHANGED <<wall, schedule, has_battery, real_time, wp, sel>>

\* ----------------------------------------------------------- the simulator

\* Powers are in watts and the state of charge in 1/SocUnit of a percent, so
\* that one read's change of the state of charge is a whole number.
SocUnit == 100000
Kilowatt == 1000

\* mock_api.py line 22.
MAX_SOC == 100

\* Lines 175 and 185: the charge and discharge rate limit of 3.0 kW.
MaxBatteryRate == 3 * Kilowatt

\* Lines 49-54: the simulator's state after __init__.
MockInitial ==
    [battery_soc |-> 50 * SocUnit, min_soc |-> 10, min_soc_on_grid |-> 10,
     work_mode |-> "SelfUse"]

Min(a, b) == IF a <= b THEN a ELSE b
Max(a, b) == IF a >= b THEN a ELSE b

\* round(x, n) in units of which m make one step of the n-th decimal; a tie
\* goes to the even neighbour.
Round(x, m) ==
    LET q == x \div m
        r == x % m
    IN  IF 2 * r < m THEN q * m
        ELSE IF 2 * r > m THEN (q + 1) * m
        ELSE IF q % 2 = 0 THEN q * m ELSE (q + 1) * m

\* round(power, 2) of a power in kW, and round(soc, 1).
RoundPower(watts) == Round(watts, Kilowatt \div 100)
RoundSoc(soc) == Round(soc, SocUnit \div 10)

\* Lines 60-104: _get_solar_generation and _get_load_power at one instant. The
\* panel gives 6.0 * sin(pi * (hour - 6) / 14) * [0.8, 1.0) kW between 06:00
\* and 20:00 UTC and nothing outside; the load is 1.5, 0.5, 2.0 or 0.3 kW
\* times [0.7, 1.3) by the hour. One pair of values of each part of the day:
\* at 07:00 generation equal to the load; at 13:00 a surplus above the charge
\* rate, with and without fractions of 10 W; at 17:00 a small surplus; at
\* 21:00 a deficit.
MockReadings ==
    { [pv_power |-> 1250, load_power |-> 1250],
      [pv_power |-> 5000, load_power |-> 500],
      [pv_power |-> 5004, load_power |-> 504],
      [pv_power |-> 3000, load_power |-> 2500],
      [pv_power |-> 0, load_power |-> 2500] }

\* The state of charge left where it is.
UpdateBatterySocUnclamped(battery_soc, charge_power) ==
    battery_soc + charge_power * 16

\* Lines 117-120: _update_battery_soc with duration_hours = 0.016 and the
\* capacity of 10 kWh: soc_change = charge_power * 0.016 / 10 * 100 percent,
\* which is 16 units for each watt; the result is clamped to [0, _MAX_SOC].
UpdateBatterySoc(battery_soc, charge_power) ==
    Max(0, Min(MAX_SOC * SocUnit, battery_soc + charge_power * 16))

\* A battery that charges only from a surplus above the rate limit.
BatterySharePastLimit(surplus, battery_soc, min_soc) ==
    IF surplus > MaxBatteryRate THEN MaxBatteryRate ELSE 0

\* Lines 168-186: battery_power, from the surplus, the state of charge and
\* self._min_soc.
BatteryShare(surplus, battery_soc, min_soc) ==
    IF surplus > 0
    THEN IF battery_soc < MAX_SOC * SocUnit THEN Min(surplus, MaxBatteryRate) ELSE 0
    ELSE IF battery_soc > min_soc * SocUnit THEN 0 - Min(0 - surplus, MaxBatteryRate) ELSE 0

\* The grid taking the whole surplus or deficit.
GridShareWhole(surplus, battery_power) == 0 - surplus

\* Lines 169-189: grid_power, from what the battery leaves of the surplus or
\* of the deficit.
GridShare(surplus, battery_power) ==
    IF surplus > 0
    THEN LET rest == surplus - battery_power
         IN  IF rest > 0 THEN 0 - rest ELSE 0
    ELSE LET deficit == (0 - surplus) + battery_power
         IN  IF deficit > 0 THEN deficit ELSE 0

\* Lines 157-222: the simulator's async_get_real_time_data for one pair of
\* generation and load: the locals of lines 161-197, the record returned and
\* the new state of charge.
MockGetRealTimeData(reading) ==
    LET pv_power == reading.pv_power
        load_power == reading.load_power
        surplus == pv_power - load_power
        battery_power == BatteryShare(surplus, sim.battery_soc, sim.min_soc)
        grid_power == GridShare(surplus, battery_power)
        battery_soc == UpdateBatterySoc(sim.battery_soc, battery_power)
        feed_in_power == Max(0, 0 - grid_power)
        grid_consumption_power == Max(0, grid_power)
    IN  /\ sim' = [sim EXCEPT !.battery_soc = battery_soc]
        /\ out' = [NoOutput EXCEPT
                     !.op = "mock.async_get_real_time_data",
                     !.fetched = Some([pv_power |-> pv_power, load_power |-> load_power,
                                       battery_power |-> battery_power,
                                       grid_power |-> grid_power,
                                       soc_before |-> sim.battery_soc]),
                     !.value = Some([pv_power |-> RoundPower(pv_power),
                                     battery_soc |-> RoundSoc(battery_soc),
                                     battery_power |-> RoundPower(battery_power),
                                     grid_power |-> RoundPower(grid_power),
                                     load_power |-> RoundPower(load_power),
                                     feed_in_power |-> RoundPower(feed_in_power),
                                     grid_consumption_power |->
                                         RoundPower(grid_consumption_power),
                                     generation_power |-> RoundPower(pv_power)])]
        /\ UNCHANGED <<wall, schedule, has_battery, real_time, wp, sel, poll>>

\* Lines 224-243: the simulator's async_get_scheduler.
MockGetScheduler ==
    /\ out' = [NoOutput EXCEPT
                 !.op = "mock.async_get_scheduler",
                 !.value = Some([enable |-> TRUE,
                                 groups |-> <<[enable |-> 1, startHour |-> 0,
                                               startMinute |-> 0, endHour |-> 23,
                                               endMinute |-> 59,
                                               workMode |-> sim.work_mode,
                                               extraParam |->
                                                   [minSocOnGrid |-> sim.min_soc_on_grid]]>>])]
    /\ UNCHANGED <<wall, schedule, has_battery, real_time, wp, sel, poll, sim>>

\* The first period of the list taken for the current one.
MockCurrentIndexFirst(periods) == Some(0)

\* Line 260: self.find_current_period_index(periods), the static method the
\* simulator inherits from the live client.
MockCurrentIndex(periods) == FindCurrentPeriodIndex(periods, wall)

\* Lines 245-268: the simulator's async_set_scheduler.
MockSetScheduler(periods) ==
    /\ LET current_idx == IF periods # <<>> THEN MockCurrentIndex(periods) ELSE Nothing
           period == periods[current_idx[1] + 1]
           extra_param == Get(period, "extraParam", <<>>)
       IN  sim' = IF current_idx = Nothing THEN sim
                  ELSE [sim EXCEPT
                          !.work_mode = Get(period, "workMode", sim.work_mode),
                          !.min_soc_on_grid =
                              IF "minSocOnGrid" \in DOMAIN extra_param
                              THEN extra_param["minSocOnGrid"]
                              ELSE sim.min_soc_on_grid]
    /\ out' = [NoOutput EXCEPT !.op = "mock.async_set_scheduler",
                               !.fetched = Some([periods |-> periods]),
                               !.value = Some(TRUE)]
    /\ UNCHANGED <<wall, schedule, has_battery, real_time, wp, sel, poll>>

\* ------------------------------------------------ the coordinator's cycle

\* The requests of a cycle, in the order of lines 233-237.
PollPaths == <<DetailPath, RealQueryPath, SchedulerGetPath>>

\* Lines 185-229: what leaves a call of _api_request other than the decoded
\* envelope: the client's three error classes and, for a body that is no JSON,
\* the json.JSONDecodeError of line 210.
RequestErrors == {AuthenticationError, CommunicationError, ApiError, "JSONDecodeError"}
RequestOutcomes == {"ok"} \cup RequestErrors

\* api.py lines 19-28: the classes of which FoxessHapaApiClientError is a base.
IsClientError(exc) == exc \in {ApiError, CommunicationError, AuthenticationError}

\* coordinator.py lines 28-31: the except clauses of _async_update_data; an
\* exception that matches neither leaves the method as it is.
Translate(exc) ==
    IF exc = AuthenticationError THEN "ConfigEntryAuthFailed"
    ELSE IF IsClientError(exc) THEN "UpdateFailed"
    ELSE exc

\* The schedule fetched for every device.
WantsScheduleAlways(device_info) == TRUE

\* Line 236: if device_info.has_battery
WantsSchedule(device_info) == device_info.has_battery

\* A cycle of the coordinator before it has started: the number of the request
\* under way, the requests issued, the tick at which _rate_limit returned for
\* each of them, what was fetched, and how _async_update_data ended.
NoPoll == [stage |-> "idle", k |-> 0, requests |-> <<>>, gates |-> <<>>,
           device_info |-> Nothing, real_time |-> Nothing, outcome |-> Nothing]

\* _async_update_data returns value, or ends in exception exc as the except
\* clauses leave it.
PollReturns(p, value) ==
    [p EXCEPT !.stage = "done",
              !.outcome = Some([kind |-> "return", exc |-> "", cause |-> "",
                                value |-> Some(value)])]
PollRaises(p, exc) ==
    [p EXCEPT !.stage = "done",
              !.outcome = Some([kind |-> "raise", exc |-> Translate(exc), cause |-> exc,
                                value |-> Nothing])]

\* The cycle's request number k enters _api_request, which builds the URL and
\* calls _rate_limit (lines 187-192).
PollCall(p, k) ==
    /\ poll' = [p EXCEPT !.stage = "gate", !.k = k]
    /\ RateLimitEnter(Requester, TRUE)

\* coordinator.py lines 26-27 and api.py lines 233, 247-248: a cycle starts
\* with the device-detail request.
PollBegin ==
    /\ poll.stage \in {"idle", "done"}
    /\ PollCall(NoPoll, 1)

\* The request under way resumes in _rate_limit.
PollWake ==
    /\ poll.stage = "gate"
    /\ RateLimitWake(Requester)
    /\ UNCHANGED poll

\* Lines 194-206: _rate_limit has returned and the request is sent.
PollSend ==
    /\ poll.stage = "gate"
    /\ poll' = [poll EXCEPT !.stage = "sent",
                            !.requests = Append(@, PollPaths[poll.k]),
                            !.gates = Append(@, rl[Requester].returned)]
    /\ CallerDone(Requester)

\* Lines 207-229 and 233-243: the request under way ends; an exception of
\* _api_request, or of the decoding of the real-time payload, ends
\* async_get_data; otherwise the next request is called, or the dict returned.
PollReceive(outcome) ==
    /\ poll.stage = "sent"
    /\ IF outcome # "ok"
       THEN poll' = PollRaises(poll, outcome) /\ UNCHANGED gateVars
       ELSE IF poll.k = 1
       THEN PollCall([poll EXCEPT !.device_info = Some([has_battery |-> has_battery])], 2)
       ELSE IF poll.k = 2
       THEN LET decoded == DecodeTelemetry(real_time)
            IN  IF decoded.exc # ""
                THEN poll' = PollRaises(poll, decoded.exc) /\ UNCHANGED gateVars
                ELSE IF WantsSchedule(poll.device_info[1])
                THEN PollCall([poll EXCEPT !.real_time = Some(decoded.v)], 3)
                ELSE /\ poll' = PollReturns(poll, [device_info |-> poll.device_info[1],
                                                   real_time |-> decoded.v,
                                                   scheduler_groups |-> Nothing])
                     /\ UNCHANGED gateVars
       ELSE /\ poll' = PollReturns(poll,
                          [device_info |-> poll.device_info[1],
                           real_time |-> poll.real_time[1],
                           scheduler_groups |->
                               Some(FilterPlaceholders(Get(schedule, "groups", <<>>)))])
            /\ UNCHANGED gateVars

\* __init__: _last_api_call = 0; the clock is some positive epoch time.
InitClient ==
    /\ now = 1
    /\ last_api_call = 0
    /\ pc = [c \in Callers |-> "idle"]
    /\ rl = [c \in Callers |-> NoCall]
    /\ lastPermit = Nothing
    /\ ar = NoRequest
    /\ out = NoOutput
    /\ wp = NoUpdate
    /\ sel = NoSelect
    /\ poll = NoPoll
    /\ sim = MockInitial

\* The client with a vendor whose schedule is one full-day period.
Init ==
    /\ InitClient
    /\ wall = [hour |-> 0, minute |-> 0]
    /\ schedule = [enable |-> 1, groups |-> <<Period(0, 0, 22, 30)>>]
    /\ has_battery = TRUE
    /\ real_time = Some(JList(<<>>))

\* Sequential callers of one instance.
NextSerial ==
    \/ \E c \in Callers : RateLimitEnter(c, TRUE) /\ UNCHANGED <<ar, scheduleVars>>
    \/ \E c \in Callers : RateLimitWake(c) /\ UNCHANGED <<ar, scheduleVars>>
    \/ \E c \in Callers : CallerDone(c) /\ UNCHANGED <<ar, scheduleVars>>
    \/ Tick /\ UNCHANGED <<ar, scheduleVars>>

SpecSerial == Init /\ [][NextSerial]_vars

\* Concurrent callers of one instance, in every interleaving.
NextConcurrent ==
    \/ \E c \in Callers : RateLimitEnter(c, FALSE) /\ UNCHANGED <<ar, scheduleVars>>
    \/ \E c \in Callers : RateLimitWake(c) /\ UNCHANGED <<ar, scheduleVars>>
    \/ \E c \in Callers : CallerDone(c) /\ UNCHANGED <<ar, scheduleVars>>
    \/ Tick /\ UNCHANGED <<ar, scheduleVars>>

SpecConcurrent == Init /\ [][NextConcurrent]_vars

\* One task issuing requests one after the other.
NextRequest ==
    \/ \E call \in ApiCalls : ApiRequest(Requester, call) /\ UNCHANGED scheduleVars
    \/ ApiRateLimitWake(Requester) /\ UNCHANGED scheduleVars
    \/ SignHeaders(Requester) /\ UNCHANGED scheduleVars
    \/ Send(Requester) /\ UNCHANGED scheduleVars
    \/ \E response \in Responses : Receive(Requester, response) /\ UNCHANGED scheduleVars
    \/ CheckStatus(Requester) /\ UNCHANGED scheduleVars
    \/ DecodeJson(Requester) /\ UNCHANGED scheduleVars
    \/ RaiseForStatus(Requester) /\ UNCHANGED scheduleVars
    \/ CheckErrno(Requester) /\ UNCHANGED scheduleVars
    \/ TimeoutFires(Requester) /\ UNCHANGED scheduleVars
    \/ \E fault \in {"client_error", "gaierror"} :
          TransportFails(Requester, fault) /\ UNCHANGED scheduleVars
    \/ \E d \in Delays : Elapse(Requester, d) /\ UNCHANGED scheduleVars

SpecRequest == Init /\ [][NextRequest]_vars

\* find_current_period_index on every schedule of the bounded set, at every
\* wall-clock time of the bounded set.
InitPeriods ==
    /\ InitClient
    /\ wall \in WallTimes
    /\ schedule \in Schedules
    /\ has_battery = TRUE
    /\ real_time = Some(JList(<<>>))

NextPeriods == FindCurrent /\ UNCHANGED <<gateVars, ar, sel, poll, sim>>

SpecPeriods == InitPeriods /\ [][NextPeriods]_vars

\* The client's schedule operations and the number entity's update against
\* every schedule of the bounded set, one operation at a time; each request of
\* an operation succeeds or fails.
InitSchedule ==
    /\ InitClient
    /\ wall = [hour |-> 0, minute |-> 0]
    /\ schedule \in Schedules
    /\ has_battery \in HasBatteryValues
    /\ real_time = Some(JList(<<>>))

NextSchedule ==
    \/ \E ok \in BOOLEAN : AsyncGetScheduler(ok) /\ UNCHANGED <<gateVars, ar, sel, poll, sim>>
    \/ \E ok \in BOOLEAN : AsyncGetScheduleGroups(ok) /\ UNCHANGED <<gateVars, ar, sel, poll, sim>>
    \/ \E failed \in 0..3 : AsyncGetData(failed) /\ UNCHANGED <<gateVars, ar, sel, poll, sim>>
    \/ \E attr \in ValueAttrs, value \in NumberValues :
          NumberSetValue(attr, value) /\ UNCHANGED <<gateVars, ar, sel, poll, sim>>
    \/ \E ok \in BOOLEAN : NumberRead(ok) /\ UNCHANGED <<gateVars, ar, sel, poll, sim>>
    \/ \E ok \in BOOLEAN : NumberWritten(ok) /\ UNCHANGED <<gateVars, ar, sel, poll, sim>>

SpecSchedule == InitSchedule /\ [][NextSchedule]_vars

\* The number and the select entity's updates against every schedule of the
\* bounded set, one update at a time, and the default schedule group; each
\* request of an update succeeds or fails.
\* The groups of the schedules the entities update: a period with an
\* extraParam, a placeholder, and the groups that lack keys.
WriteGroups == {Period(0, 0, 22, 30), Period(9, 0, 9, 0)} \cup PartialGroups

WriteSchedules ==
    {[enable |-> 1, groups |-> l] : l \in ListsOf(WriteGroups, MaxGroups)} \cup {[enable |-> 0]}

InitWrite ==
    /\ InitClient
    /\ wall \in {[hour |-> 0, minute |-> 0], [hour |-> 22, minute |-> 30]}
    /\ schedule \in WriteSchedules
    /\ has_battery = TRUE
    /\ real_time = Some(JList(<<>>))

NextWrite ==
    \/ \E attr \in ValueAttrs, value \in NumberValues :
          sel.stage = "idle" /\ NumberSetValue(attr, value) /\ UNCHANGED <<gateVars, ar, sel, poll, sim>>
    \/ \E ok \in BOOLEAN : NumberRead(ok) /\ UNCHANGED <<gateVars, ar, sel, poll, sim>>
    \/ \E ok \in BOOLEAN : NumberWritten(ok) /\ UNCHANGED <<gateVars, ar, sel, poll, sim>>
    \/ \E option \in SelectOptions : SelectOption(option) /\ UNCHANGED <<gateVars, ar, poll, sim>>
    \/ \E ok \in BOOLEAN : SelectRead(ok) /\ UNCHANGED <<gateVars, ar, poll, sim>>
    \/ \E ok \in BOOLEAN : SelectWritten(ok) /\ UNCHANGED <<gateVars, ar, poll, sim>>
    \/ \E work_mode \in WorkModeInputs, min_soc_on_grid \in MinSocInputs :
          CreateDefault(work_mode, min_soc_on_grid) /\ UNCHANGED <<gateVars, ar, poll, sim>>

SpecWrite == InitWrite /\ [][NextWrite]_vars

\* async_get_real_time_data against every payload of the bounded set.
InitTelemetry ==
    /\ InitClient
    /\ wall = [hour |-> 0, minute |-> 0]
    /\ schedule = [enable |-> 0]
    /\ has_battery = TRUE
    /\ real_time \in RealTimeResults

NextTelemetry ==
    \E ok \in BOOLEAN : AsyncGetRealTimeData(ok) /\ UNCHANGED <<gateVars, ar, poll, sim>>

SpecTelemetry == InitTelemetry /\ [][NextTelemetry]_vars

\* The coordinator's cycles, one after the other, against a device with or
\* without a battery; each request of a cycle ends in the envelope or in one
\* of the exceptions of _api_request.
\* The real-time payloads of the cycles: one that decodes, and one for each
\* exception of the decoding.
PollResults ==
    { Some(JList(<<JDevice(Some(JList(<<Variable(Some("SoC"), Some(Num(50)))>>)))>>)),
      Some(JList(<<JDevice(Some(JList(<<Variable(Some("SoC"), Some(Str(<<"a">>)))>>)))>>)),
      Some(JList(<<>>)),
      Some(JList(<<JDevice(Some(JNull))>>)) }

PollSchedules ==
    { [enable |-> 0],
      [enable |-> 1, groups |-> <<Period(9, 0, 9, 0), Period(0, 0, 22, 30)>>] }

InitPoll ==
    /\ InitClient
    /\ wall = [hour |-> 0, minute |-> 0]
    /\ schedule \in PollSchedules
    /\ has_battery \in HasBatteryValues
    /\ real_time \in PollResults

\* The last tick of the coordinator's cycles.
MaxPollTime == 20

\* The clock advances during a cycle or between two cycles.
PollTick ==
    /\ now < MaxPollTime
    /\ now' = now + 1
    /\ UNCHANGED <<last_api_call, pc, rl, lastPermit, poll>>

pollEnv == <<ar, wall, schedule, has_battery, real_time, out, wp, sel, sim>>

NextPoll ==
    \/ PollBegin /\ UNCHANGED pollEnv
    \/ PollWake /\ UNCHANGED pollEnv
    \/ PollSend /\ UNCHANGED pollEnv
    \/ \E outcome \in RequestOutcomes : PollReceive(outcome) /\ UNCHANGED pollEnv
    \/ PollTick /\ UNCHANGED pollEnv

SpecPoll == InitPoll /\ [][NextPoll]_vars

\* The simulator's telemetry reads, schedule reads and schedule writes in
\* every order, from the state after __init__.
\* The period lists written: a full-day period with a work mode and a floor;
\* a period of the day; one with the floor at top level, as the number entity
\* writes it; one without a work mode.
MockFullDay ==
    [enable |-> 1, startHour |-> 0, startMinute |-> 0, endHour |-> 23, endMinute |-> 59,
     workMode |-> "Backup", extraParam |-> [minSocOnGrid |-> 60]]
MockDaytime == Period(9, 0, 22, 30)
MockTopLevelFloor ==
    [enable |-> 1, startHour |-> 9, startMinute |-> 0, endHour |-> 22, endMinute |-> 30,
     workMode |-> "ForceCharge", minSocOnGrid |-> 20]
MockFloorOnly == [extraParam |-> [minSocOnGrid |-> 10]]

MockPeriodLists ==
    { <<>>, <<MockFullDay>>, <<MockDaytime>>, <<MockTopLevelFloor, MockFullDay>>,
      <<MockDaytime, MockTopLevelFloor>>, <<MockFloorOnly>> }

InitSimulator ==
    /\ InitClient
    /\ wall \in {[hour |-> 0, minute |-> 0], [hour |-> 9, minute |-> 0]}
    /\ schedule = [enable |-> 0]
    /\ has_battery = TRUE
    /\ real_time = Some(JList(<<>>))

NextSimulator ==
    \/ \E reading \in MockReadings : MockGetRealTimeData(reading) /\ UNCHANGED <<gateVars, ar>>
    \/ MockGetScheduler /\ UNCHANGED <<gateVars, ar>>
    \/ \E periods \in MockPeriodLists : MockSetScheduler(periods) /\ UNCHANGED <<gateVars, ar>>

SpecSimulator == InitSimulator /\ [][NextSimulator]_vars

\* One update of the number entity and one of the select entity on the same
\* client, their reads and writes in every interleaving; the tasks switch at
\* the awaits of client.async_get_scheduler() and client.async_set_scheduler().
InitRace ==
    /\ InitClient
    /\ wall = [hour |-> 0, minute |-> 0]
    /\ schedule \in WriteSchedules
    /\ has_battery = TRUE
    /\ real_time = Some(JList(<<>>))

NextRace ==
    \/ \E option \in SelectOptions :
          SelectOption(option) /\ UNCHANGED <<gateVars, ar, poll, sim>>
    \/ \E attr \in ValueAttrs, value \in NumberValues :
          NumberSetValue(attr, value) /\ UNCHANGED <<gateVars, ar, sel, poll, sim>>
    \/ \E ok \in BOOLEAN : NumberRead(ok) /\ UNCHANGED <<gateVars, ar, sel, poll, sim>>
    \/ \E ok \in BOOLEAN : SelectRead(ok) /\ UNCHANGED <<gateVars, ar, poll, sim>>
    \/ \E ok \in BOOLEAN : NumberWrittenStored(ok) /\ UNCHANGED <<gateVars, ar, poll, sim>>
    \/ \E ok \in BOOLEAN : SelectWrittenStored(ok) /\ UNCHANGED <<gateVars, ar, poll, sim>>

SpecRace == InitRace /\ [][NextRace]_vars

\* ------------------------------------------------------------------ claims

\* The previous permitted call a _rate_limit call saw when it was entered, and
\* the time since then.
SincePrev(r) == r.entered - r.prev[1]

\* C1: with sequential callers, a _rate_limit call entered less than a second
\* after the previous permitted call suspends for 1 - elapsed + 0.2 seconds and
\* returns no sooner than a second after that call; a call entered a second or
\* more after it, or the first call of the instance, returns without suspending.
C1_GateSpacing ==
    \A c \in Callers :
        LET r == rl[c]
            close == r.prev # Nothing /\ SincePrev(r) < OneSecond
        IN  /\ pc[c] = "sleeping" => close
            /\ pc[c] = "passed" =>
                 IF close
                 THEN /\ r.slept
                      /\ r.wake - r.entered = OneSecond - SincePrev(r) + Margin
                      /\ r.returned - r.prev[1] >= OneSecond
                 ELSE ~r.slept /\ r.returned = r.entered

\* One call has returned without suspending and a later one after suspending.
C1_Witness ==
    \E c, d \in Callers :
        /\ pc[c] = "passed" /\ ~rl[c].slept
        /\ pc[d] = "passed" /\ rl[d].slept /\ rl[d].entered > rl[c].returned

\* C2: in every interleaving of concurrent callers, no two callers return from
\* _rate_limit less than one second apart.
C2_NoBurst ==
    \A c \in Callers :
        pc[c] = "passed" /\ rl[c].gap # Nothing => rl[c].gap[1] >= OneSecond

\* The _api_request call has ended, and how.
Finished == ar.outcome # Nothing
Raised(exc) == Finished /\ ar.outcome[1].kind = "raise" /\ ar.outcome[1].exc = exc
Responded == ar.response # Nothing
Decoded == ar.result # Nothing

\* The messages of Msgs that contain "token" or "auth" when case is ignored.
AuthMsgs == {MsgTokenUpper, MsgTokenBad, MsgUnauth}

\* The decoded envelope reports an error (errno other than 0, an absent errno
\* included) with, respectively without, an authentication message.
AuthEnvelope ==
    /\ Decoded
    /\ ar.result[1].errno # Some(0)
    /\ ar.result[1].msg # Nothing /\ ar.result[1].msg[1] \in AuthMsgs
OtherErrorEnvelope ==
    /\ Decoded
    /\ ar.result[1].errno # Some(0)
    /\ ar.result[1].msg = Nothing \/ ar.result[1].msg[1] \notin AuthMsgs

AuthStatus == Responded /\ ar.response[1].status \in {401, 403}
ErrorStatus == Responded /\ ar.response[1].status >= 400

\* C3, as stated: _api_request fails with AuthenticationError exactly when the
\* status is 401 or 403 or the decoded envelope has errno != 0 and a msg that
\* contains "token" or "auth".
C3_AuthExactly ==
    Finished => (Raised(AuthenticationError) <=> AuthStatus \/ AuthEnvelope)

\* C3, amended: ... or the status is below 400 and the decoded envelope has
\* errno != 0 and a msg that contains "token" or "auth".
C3_AuthExactlyBelow400 ==
    Finished =>
        (Raised(AuthenticationError) <=> AuthStatus \/ (~ErrorStatus /\ AuthEnvelope))

\* An authentication error raised for an upper-case message on a 200 response.
C3_Witness ==
    /\ Raised(AuthenticationError)
    /\ ar.response[1].status = 200
    /\ ar.result[1].msg = Some(MsgTokenUpper)

\* The text the general API error carries for the decoded envelope.
CarriesMsg ==
    ar.result[1].msg # Nothing =>
        ar.outcome[1].text = <<"API error: ">> \o ar.result[1].msg[1]

\* C4, as stated: every decoded envelope with a non-zero errno and a msg that is
\* not an authentication message makes _api_request fail with the general API
\* error, whose text carries the msg.
C4_GeneralError ==
    Finished /\ OtherErrorEnvelope => Raised(ApiError) /\ CarriesMsg

\* C4, amended: ... on a response whose status is below 400.
C4_GeneralErrorBelow400 ==
    Finished /\ OtherErrorEnvelope /\ ~ErrorStatus => Raised(ApiError) /\ CarriesMsg

\* The general error raised for a message that only resembles "auth".
C4_Witness ==
    /\ Raised(ApiError)
    /\ ar.result[1].msg = Some(MsgAuto)
    /\ ar.result[1].errno = Some(41808)

TransportFault == ar.fault \in {"timeout", "client_error", "gaierror"}

\* C5, as stated: a transport failure yields CommunicationError, and the whole
\* request, from the call of _api_request with its rate-limit wait to the
\* result, takes no more than 75 seconds.
C5_WholeRequestBound ==
    Finished =>
        /\ TransportFault => Raised(CommunicationError)
        /\ ar.finished - ar.called <= Timeout

\* C5, amended: ... and the part of the request inside the timeout block, from
\* the send to the decoded result, takes no more than 75 seconds; the
\* rate-limit wait before it is not counted.
C5_TimeoutBlockBound ==
    Finished =>
        /\ TransportFault => Raised(CommunicationError)
        /\ ar.block # Nothing /\ ar.finished - ar.block[1] <= Timeout
        /\ ar.finished - ar.block[1] = Timeout => ar.fault \in {"timeout", "client_error", "gaierror"}

\* A request that waited at the gate and then timed out.
C5_Witness ==
    /\ Finished /\ ar.fault = "timeout"
    /\ rl[Requester].slept
    /\ ar.finished - ar.called > Timeout

\* How often a step occurs in the trace of the call.
Count(name) == Cardinality({i \in 1..Len(ar.trace) : ar.trace[i] = name})

\* C6: every invocation of _api_request passes the rate-limit gate exactly once
\* and sends at most one HTTP request, whatever its outcome.
C6_SingleAttempt ==
    /\ ar.sends <= 1
    /\ ar.sends = Count("send")
    /\ Count("rate_limit") <= 1
    /\ Finished => Count("rate_limit") = 1

\* A request that timed out after its one send.
C6_Witness == Finished /\ ar.fault = "timeout" /\ ar.sends = 1

\* The order of the steps of _api_request.
StepOrder == <<"rate_limit", "sign", "send", "status", "json", "raise_for_status", "errno">>

\* C7: the steps of _api_request occur in the order gate, signing, send, status
\* check, JSON body; a 401 or 403 response yields AuthenticationError whatever
\* its body, which is never decoded.
C7_StepOrder ==
    /\ Len(ar.trace) <= Len(StepOrder)
    /\ ar.trace = SubSeq(StepOrder, 1, Len(ar.trace))
    /\ Finished /\ AuthStatus => Raised(AuthenticationError) /\ ~Decoded

\* A 403 response whose body is not JSON.
C7_Witness ==
    /\ Raised(AuthenticationError)
    /\ ar.response[1] = [status |-> 403, body |-> [kind |-> "not_json"]]

\* The list of groups in the schedule an operation fetched.
FetchedGroups == Get(out.fetched[1], "groups", <<>>)

\* The least element of a non-empty set of integers.
Least(S) == CHOOSE i \in S : \A j \in S : i <= j

\* A period covers minute m of the day, in the words of the claim: one whose end
\* lies before its start covers m iff m >= start or m <= end, any other iff
\* start <= m <= end (an absent field counts as 00:00, respectively 23:59).
ClaimCovers(g, m) ==
    IF EndMinutes(g) < StartMinutes(g)
    THEN m >= StartMinutes(g) \/ m <= EndMinutes(g)
    ELSE StartMinutes(g) <= m /\ m <= EndMinutes(g)

\* C8: find_current_period_index returns the smallest index, in list order, of a
\* period that covers the current minute of the day, with both bounds inclusive
\* and a period that spans midnight covering both of its sides; overlaps are
\* resolved by first match; the result is None exactly when no period covers it.
C8_FirstCoveringPeriod ==
    out.op = "find_current_period_index" =>
        LET m == wall.hour * 60 + wall.minute
            covering == {i \in 1..Len(FetchedGroups) : ClaimCovers(FetchedGroups[i], m)}
        IN  out.value[1] = IF covering = {} THEN Nothing ELSE Some(Least(covering) - 1)

\* A period that spans midnight, placed first, wins over a later period that
\* does not span midnight and covers the current time as well.
C8_Witness ==
    /\ out.op = "find_current_period_index"
    /\ out.value[1] = Some(0)
    /\ Len(FetchedGroups) = 2
    /\ EndMinutes(FetchedGroups[1]) < StartMinutes(FetchedGroups[1])
    /\ StartMinutes(FetchedGroups[2]) < EndMinutes(FetchedGroups[2])
    /\ ClaimCovers(FetchedGroups[2], wall.hour * 60 + wall.minute)
    /\ wall.hour = 22 /\ wall.minute = 30

\* The value of a key of a dict, if it has the key.
Opt(d, k) == IF k \in DOMAIN d THEN Some(d[k]) ELSE Nothing

\* A placeholder, in the words of the claim: (startHour, startMinute) equals
\* (endHour, endMinute).
ClaimPlaceholder(g) ==
    <<Opt(g, "startHour"), Opt(g, "startMinute")>> = <<Opt(g, "endHour"), Opt(g, "endMinute")>>

\* The j-th smallest element of a set of integers.
Nth(S, j) == CHOOSE i \in S : Cardinality({k \in S : k <= i}) = j

\* C9: async_get_schedule_groups returns exactly the fetched groups whose start
\* (hour, minute) differs from their end (hour, minute), in their original order,
\* and filtering its result again changes nothing.
C9_FilterPlaceholders ==
    out.op = "async_get_schedule_groups" /\ ~out.raised =>
        LET kept == {i \in 1..Len(FetchedGroups) : ~ClaimPlaceholder(FetchedGroups[i])}
            result == out.value[1]
        IN  /\ Len(result) = Cardinality(kept)
            /\ \A j \in 1..Len(result) : result[j] = FetchedGroups[Nth(kept, j)]
            /\ FilterPlaceholders(result) = result

\* Of a placeholder 09:00-09:00 and a period 09:00-09:30, only the second survives.
C9_Witness ==
    /\ out.op = "async_get_schedule_groups" /\ ~out.raised
    /\ FetchedGroups = <<Period(9, 0, 9, 0), Period(9, 0, 9, 30)>>
    /\ out.value[1] = <<Period(9, 0, 9, 30)>>

\* The period list an operation surfaced to its caller: the scheduler_groups of
\* async_get_data, the result of async_get_schedule_groups, the groups of the
\* result of async_get_scheduler, and the groups the number entity read with
\* async_get_scheduler and wrote back.
SurfacedGroups ==
    IF out.value = Nothing THEN <<>>
    ELSE CASE out.op = "async_get_data" ->
                IF out.value[1].scheduler_groups = Nothing THEN <<>>
                ELSE out.value[1].scheduler_groups[1]
           [] out.op = "async_get_schedule_groups" -> out.value[1]
           [] out.op = "async_get_scheduler" -> Get(out.value[1], "groups", <<>>)
           [] out.op = "async_set_native_value" -> out.value[1]
           [] OTHER -> <<>>

\* C10: no period list the client surfaces to a caller contains a placeholder.
C10_NoPlaceholderSurfaced ==
    \A i \in 1..Len(SurfacedGroups) : ~ClaimPlaceholder(SurfacedGroups[i])

\* The key of a period that an update of the number entity for attr overrides.
OverriddenKey(attr) == IF attr = "min_soc" THEN "minSoc" ELSE "minSocOnGrid"

\* The groups of the schedule an entity's update read.
ReadGroups(update) == Get(update.fetched[1], "groups", <<>>)

\* Every field of the period that was read, but for key, is in the period
\* written with the same value, and the period written has no other field.
SameExcept(read, written, key) ==
    /\ DOMAIN written \ {key} = DOMAIN read \ {key}
    /\ \A k \in DOMAIN read \ {key} : written[k] = read[k]

\* The update submits as many periods as it read, each the same but for key.
OnlyOverridden(update, key) ==
    /\ Len(update.groups) = Len(ReadGroups(update))
    /\ \A i \in 1..Len(update.groups) :
          SameExcept(ReadGroups(update)[i], update.groups[i], key)

\* C11: an update of existing periods changes only the overridden field: in
\* every period submitted to the schedule write, every other field of the period
\* that was read (enable, start and end, workMode, extraParam, any other field)
\* has the value that was read.
C11_OnlyOverriddenChanges ==
    /\ wp.stage = "writing" /\ ReadGroups(wp) # <<>> =>
          OnlyOverridden(wp, OverriddenKey(wp.attr))
    /\ sel.stage = "writing" /\ ReadGroups(sel) # <<>> =>
          OnlyOverridden(sel, "workMode")

\* minSocOnGrid set in a period with an extraParam, next to a period that has
\* no time fields: both are submitted with their other fields as read.
C11_Witness ==
    /\ wp.stage = "writing" /\ wp.attr = "min_soc_on_grid"
    /\ ReadGroups(wp) = <<Period(0, 0, 22, 30), [enable |-> 0, workMode |-> "Backup"]>>
    /\ wp.groups[1].extraParam = [minSocOnGrid |-> 10]
    /\ wp.groups[1].minSocOnGrid = 20
    /\ wp.groups[2] = [enable |-> 0, workMode |-> "Backup", minSocOnGrid |-> 20]

\* An enabled period from 00:00 to 23:59.
FullDay(g) ==
    /\ g.enable = 1
    /\ g.startHour = 0 /\ g.startMinute = 0
    /\ g.endHour = 23 /\ g.endMinute = 59

MinutesOfDay == 0..(24 * 60 - 1)

\* C12: when the schedule read returns no periods, the update submits exactly
\* one period, enabled, 00:00 to 23:59, with work mode SelfUse unless the work
\* mode is what is set, and with the override applied; and
\* create_default_schedule_group returns such a full-day period with the work
\* mode and minSocOnGrid it was given, which find_current_period_index finds at
\* index 0 at every minute of the day.
C12_DefaultPeriod ==
    /\ wp.stage = "writing" /\ ReadGroups(wp) = <<>> =>
          /\ Len(wp.groups) = 1
          /\ FullDay(wp.groups[1])
          /\ wp.groups[1].workMode = "SelfUse"
          /\ wp.groups[1][OverriddenKey(wp.attr)] = wp.value
    /\ sel.stage = "writing" /\ ReadGroups(sel) = <<>> =>
          /\ Len(sel.groups) = 1
          /\ FullDay(sel.groups[1])
          /\ sel.groups[1].workMode = sel.option
    /\ out.op = "create_default_schedule_group" =>
          LET made == out.value[1]
          IN  /\ FullDay(made.group)
              /\ made.group.workMode = made.work_mode
              /\ made.group.extraParam.minSocOnGrid = made.min_soc_on_grid
              /\ made.index = Some(0)
              /\ \A m \in MinutesOfDay : FindFrom(<<made.group>>, 1, m) = Some(0)

\* The select entity sets a work mode on a schedule without the key "groups".
C12_Witness ==
    /\ sel.stage = "writing"
    /\ sel.fetched = Some([enable |-> 0])
    /\ sel.groups = <<SelectDefaultGroup("ForceCharge")>>

WriteOps == {"async_set_native_value", "async_select_option"}

\* C13: an entity's update issues the schedule read, then modifies the periods,
\* then issues the schedule write, each once; the coordinator's refresh is
\* requested only after a write that returned success; a read that raises is
\* followed by no write, a write that raises by no refresh, and either error is
\* re-raised. (An option that is no work mode is rejected before the read.)
C13_ReadModifyWriteRefresh ==
    /\ wp.stage = "writing" \/ sel.stage = "writing" => out.value = Nothing /\ ~out.refreshed
    /\ sel.stage = "writing" => out.requests = <<SchedulerGetPath>>
    /\ out.op \in WriteOps =>
          \/ /\ out.requests = <<>>
             /\ out.op = "async_select_option"
             /\ ~out.raised /\ ~out.refreshed /\ out.value = Nothing
          \/ /\ out.requests = <<SchedulerGetPath>>
             /\ out.raised /\ ~out.refreshed /\ out.value = Nothing
          \/ /\ out.requests = <<SchedulerGetPath, SchedulerEnablePath>>
             /\ out.value # Nothing
             /\ out.refreshed <=> ~out.raised

\* The select entity's write raised after a successful read: no refresh.
C13_Witness ==
    /\ out.op = "async_select_option"
    /\ out.requests = <<SchedulerGetPath, SchedulerEnablePath>>
    /\ out.raised /\ ~out.refreshed
    /\ sel.current_mode = Some("ForceCharge")

\* async_get_real_time_data has received a response, and has returned a record.
GotTelemetry == out.op = "async_get_real_time_data" /\ out.fetched # Nothing
Decodes == GotTelemetry /\ ~out.raised
Telemetry == out.value[1].v

\* C14: for every response received, async_get_real_time_data returns a record
\* and does not raise, whatever the shape of the payload: a missing, null or
\* wrong-typed field gives the field's default.
C14_NeverRaisesOnShape == GotTelemetry => ~out.raised

\* The entries of the first device's "datas", where the response has them.
ReportedEntries ==
    LET data == FirstDevice(out.fetched[1].result)
    IN  IF data.datas = Nothing THEN <<>> ELSE data.datas[1].items

\* The name and the value an entry reports; an entry without "variable" reports
\* the name "", one without "value" the value 0.
EntryName(e) == IF e.variable = Nothing THEN "" ELSE e.variable[1]
EntryValue(e) == IF e.value = Nothing THEN Num(0) ELSE e.value[1]

\* The variable named key is absent from the payload, or null.
AbsentOrNull(key) ==
    \/ \A i \in 1..Len(ReportedEntries) : EntryName(ReportedEntries[i]) # key
    \/ key \in DOMAIN Telemetry.raw_variables /\ Telemetry.raw_variables[key] = Null

\* C15: in a decoded record, a numeric field whose variable is absent or null is
\* 0 and a string field whose variable is absent or null is ""; a payload whose
\* variables are all numbers and none of which is SoC decodes, with
\* battery_soc = 0; raw_variables maps exactly the names the first device
\* reports, each to a value the device reports for it.
C15_DefaultsAndRaw ==
    /\ Decodes =>
          /\ \A i \in 1..Len(TelemetryFields) :
                LET field == TelemetryFields[i]
                IN  /\ field[2] \in {"float", "int", "residual"} /\ AbsentOrNull(field[3])
                       => Telemetry[field[1]] = 0
                    /\ field[2] = "str" /\ AbsentOrNull(field[3])
                       => Telemetry[field[1]] = <<>>
          /\ DOMAIN Telemetry.raw_variables =
                {EntryName(ReportedEntries[i]) : i \in 1..Len(ReportedEntries)}
          /\ \A name \in DOMAIN Telemetry.raw_variables :
                \E i \in 1..Len(ReportedEntries) :
                    /\ EntryName(ReportedEntries[i]) = name
                    /\ EntryValue(ReportedEntries[i]) = Telemetry.raw_variables[name]
    /\ (/\ GotTelemetry
        /\ FirstDevice(out.fetched[1].result).kind = "dict"
        /\ FirstDevice(out.fetched[1].result).datas \in {Nothing, Some(JList(ReportedEntries))}
        /\ \A i \in 1..Len(ReportedEntries) :
              /\ ReportedEntries[i].kind = "dict"
              /\ EntryName(ReportedEntries[i]) # "SoC"
              /\ EntryValue(ReportedEntries[i]).t = "num")
       => ~out.raised /\ Telemetry.battery_soc = 0

\* A device that reports a null runningState and a variable no field reads.
C15_Witness ==
    /\ Decodes
    /\ ReportedEntries = <<Variable(Some("runningState"), Some(Null)),
                           Variable(Some("todayYield"), Some(Num(30)))>>
    /\ Telemetry.running_state = <<>>
    /\ Telemetry.battery_soc = 0
    /\ Telemetry.raw_variables["todayYield"] = Num(30)

\* C16: in every decoded record battery_power is bat_charge_power minus
\* bat_discharge_power, positive exactly when the charge power is the larger and
\* negative exactly when the discharge power is the larger.
C16_BatteryPower ==
    Decodes =>
        /\ Telemetry.battery_power = Telemetry.bat_charge_power - Telemetry.bat_discharge_power
        /\ Telemetry.battery_power > 0 <=> Telemetry.bat_charge_power > Telemetry.bat_discharge_power
        /\ Telemetry.battery_power < 0 <=> Telemetry.bat_discharge_power > Telemetry.bat_charge_power
        /\ AbsentOrNull("batChargePower") => Telemetry.battery_power = 0 - Telemetry.bat_discharge_power
        /\ AbsentOrNull("batDischargePower") => Telemetry.battery_power = Telemetry.bat_charge_power

\* A battery that discharges at 50 and charges at 30.
C16_Witness ==
    /\ Decodes
    /\ Telemetry.bat_charge_power = 30 /\ Telemetry.bat_discharge_power = 50
    /\ Telemetry.battery_power = 0 - 20

\* C17: the decoded residual_energy is the raw ResidualEnergy, reported in
\* hundredths of a kWh, converted to kWh: a hundred times it is the raw value.
C17_ResidualEnergyScaled ==
    Decodes /\ "ResidualEnergy" \in DOMAIN Telemetry.raw_variables
            /\ Telemetry.raw_variables["ResidualEnergy"].t = "num" =>
        Telemetry.residual_energy * 100 = Telemetry.raw_variables["ResidualEnergy"].v

\* The signature of a request for path signed with token at timestamp.
SignatureOf(path, token, timestamp) == Md5(<<path, "\\r\\n", token, "\\r\\n", timestamp>>)

\* The part of a path before its first "?", the whole path if it has none.
BeforeQuery(path) ==
    LET marks == {i \in 1..Len(path) : path[i] = "?"}
    IN  IF marks = {} THEN path ELSE SubSeq(path, 1, Least(marks) - 1)

\* C18: the signature sent with a request for path?query is the signature of
\* the path without the query string, for the same token and timestamp; the URL
\* requested keeps the query string; the timestamp header is the timestamp signed.
C18_SignatureIgnoresQuery ==
    ar.headers # Nothing =>
        LET headers == ar.headers[1]
        IN  /\ headers.signature = SignatureOf(BeforeQuery(ar.path), headers.token, headers.timestamp)
            /\ headers.token = ApiKey
            /\ headers.timestamp = ar.block[1] * 200
            /\ ar.url = Some(<<BASE_URL>> \o ar.path)

\* The device-detail request: its URL has the query string, its signature is
\* that of the bare path.
C18_Witness ==
    /\ ar.headers # Nothing
    /\ ar.path = <<"/op/v1/device/detail", "?", "sn=", DeviceSn>>
    /\ ar.url[1][3] = "?"
    /\ ar.headers[1].signature.md5[1] = <<"/op/v1/device/detail">>

\* A response arrived with an error status other than 401 and 403 and a body
\* that is not valid JSON, and the transport did not fail after that.
BadBodyOnErrorStatus ==
    /\ Finished /\ ErrorStatus /\ ~AuthStatus
    /\ ar.response[1].body.kind # "json"
    /\ ~TransportFault

\* C19: for a response with an error status other than 401 and 403 whose body
\* is not valid JSON, _api_request fails with the HTTP status error, and not with
\* a JSON decoding error.
C19_StatusErrorOnBadBody ==
    BadBodyOnErrorStatus => Raised(CommunicationError) /\ ar.fault = "http_status"

\* C20, as stated: a decoded envelope with errno == 0 is returned to the caller
\* without an error.
C20_ErrnoZeroReturns ==
    Finished /\ Decoded /\ ar.result[1].errno = Some(0) =>
        ar.outcome = Return(ar.result[1])

\* C20, amended: a decoded envelope with errno == 0 of a response whose HTTP
\* status is below 400 is returned to the caller without an error, whatever
\* its msg.
C20_ErrnoZeroReturnsBelow400 ==
    Finished /\ Decoded /\ ar.result[1].errno = Some(0) /\ ~ErrorStatus =>
        ar.outcome = Return(ar.result[1])

\* An envelope with errno 0 and the msg "TOKEN" on a 200 response is returned.
C20_Witness ==
    /\ Finished /\ ar.outcome[1].kind = "return"
    /\ ar.response[1].status = 200
    /\ ar.result[1] = [errno |-> Some(0), msg |-> Some(MsgTokenUpper)]

\* The stored timestamp as the previous permitted call determines it.
StampOf(permit) == IF permit = Nothing THEN 0 ELSE permit[1]

\* Task c suspends in the gate, or returns from it, in this step.
Suspends(c) == pc[c] = "idle" /\ pc'[c] = "sleeping"
Permitted(c) == pc[c] # "passed" /\ pc'[c] = "passed"

\* C26: _rate_limit writes the last-call timestamp once per call, as its last
\* step: the timestamp changes only in a step in which a call returns, and is
\* then the time of that return; a call that suspends leaves it as it was;
\* and a call entered while another one is suspended computes its elapsed
\* time from the previous permitted call.
C26_StampWrittenOnReturn ==
    [][/\ last_api_call' # last_api_call => \E c \in Callers : Permitted(c)
       /\ \A c \in Callers : Permitted(c) => last_api_call' = now'
       /\ \A c \in Callers : Suspends(c) => last_api_call' = last_api_call
       /\ \A d \in Callers :
             (/\ pc[d] = "idle" /\ pc'[d] # "idle"
              /\ \E c \in Callers : pc[c] = "sleeping"
              /\ lastPermit # Nothing)
             => /\ last_api_call = StampOf(lastPermit)
                /\ rl'[d].diff = now - lastPermit[1]]_vars

\* Two calls are suspended at once; the later one was entered during the
\* earlier one's wait and measured from the same previous permitted call.
C26_Witness ==
    \E c, d \in Callers :
        /\ pc[c] = "sleeping" /\ pc[d] = "sleeping"
        /\ rl[d].entered > rl[c].entered
        /\ rl[c].prev # Nothing /\ rl[d].prev = rl[c].prev
        /\ last_api_call = rl[c].prev[1]

\* The envelope _api_request returned.
ReturnedEnvelope == ar.outcome[1].value[1]

\* C29: _api_request never returns an envelope whose errno is not 0, so that
\* async_set_scheduler, which returns result.get("errno") == 0 for the
\* envelope of its scheduler/enable request, returns True or raises and never
\* returns False.
C29_SetSchedulerTrueOrRaises ==
    (Finished /\ ar.outcome[1].kind = "return")
    => /\ ReturnedEnvelope.errno = Some(0)
       /\ ar.path = SchedulerEnablePath => SetSchedulerResult(ReturnedEnvelope)

\* A scheduler/enable request has returned its envelope, whose errno is 0 and
\* for which async_set_scheduler returns True.
C29_Witness ==
    /\ Finished /\ ar.path = SchedulerEnablePath
    /\ ar.outcome[1].kind = "return"
    /\ ReturnedEnvelope.errno = Some(0) /\ SetSchedulerResult(ReturnedEnvelope)

\* How the coordinator's cycle ended.
PollDone == poll.stage = "done"
PollRaised == PollDone /\ poll.outcome[1].kind = "raise"
PollReturned == PollDone /\ poll.outcome[1].kind = "return"

\* C21: no error of async_get_data leaves _async_update_data untranslated: an
\* AuthenticationError leaves it as ConfigEntryAuthFailed and every other
\* error of the request pipeline or of the telemetry decoding as UpdateFailed.
C21_EveryErrorTranslated ==
    PollRaised =>
        poll.outcome[1].exc = IF poll.outcome[1].cause = AuthenticationError
                              THEN "ConfigEntryAuthFailed"
                              ELSE "UpdateFailed"

\* The requests of the cycle issued so far, and the paths a cycle may issue.
Issued == Len(poll.requests)
CycleOrder == <<DetailPath, RealQueryPath, SchedulerGetPath>>

\* C27: async_get_data issues device detail, real-time data, schedule in that
\* order, each after a _rate_limit return of its own; the schedule request is
\* issued only for a device fetched with has_battery true, and a cycle that
\* returns has issued it iff has_battery is true (scheduler_groups is None
\* otherwise); a cycle that fails has issued no request after the failing one
\* and gives no result.
C27_CycleOrder ==
    /\ Issued <= 3 /\ poll.requests = SubSeq(CycleOrder, 1, Issued)
    /\ Len(poll.gates) = Issued
    /\ \A i \in 1..Issued :
          /\ poll.gates[i] >= 1
          /\ \A j \in 1..Issued : i < j => poll.gates[j] - poll.gates[i] >= OneSecond
    /\ Issued = 3 => has_battery /\ poll.device_info = Some([has_battery |-> TRUE])
    /\ PollReturned =>
          /\ Issued = IF has_battery THEN 3 ELSE 2
          /\ poll.outcome[1].value[1].device_info.has_battery = has_battery
          /\ (poll.outcome[1].value[1].scheduler_groups = Nothing) <=> ~has_battery
    /\ PollRaised => poll.outcome[1].value = Nothing /\ Issued = poll.k

\* A cycle for a device with a battery has returned after its three requests,
\* the second of which had to wait in the gate.
C27_Witness ==
    /\ PollReturned /\ has_battery /\ Issued = 3
    /\ poll.outcome[1].value[1].scheduler_groups = Some(<<Period(0, 0, 22, 30)>>)
    /\ poll.gates[2] - poll.gates[1] = OneSecond + Margin

\* The simulator's last operation, and the locals and the record of a read.
MockRead == out.op = "mock.async_get_real_time_data"
MockWrote == out.op = "mock.async_set_scheduler"
Locals == out.fetched[1]
Reported == out.value[1]

\* C22: the simulator's state of charge is within [0, 100] in every reachable
\* state, and so is every battery_soc a read reports.
C22_SocWithinRange ==
    /\ 0 <= sim.battery_soc /\ sim.battery_soc <= 100 * SocUnit
    /\ MockRead => 0 <= Reported.battery_soc /\ Reported.battery_soc <= 100 * SocUnit

\* A read with a surplus has found the battery just below full and left it
\* at 100, which it reports.
C22_Witness ==
    /\ MockRead
    /\ Locals.soc_before < 100 * SocUnit
    /\ Locals.soc_before + Locals.battery_power * 16 > 100 * SocUnit
    /\ sim.battery_soc = 100 * SocUnit /\ Reported.battery_soc = 100 * SocUnit

C30_PowerBalance ==
    MockRead =>
        LET surplus == Locals.pv_power - Locals.load_power
            charge == Max(0, Locals.battery_power)
            discharge == Max(0, 0 - Locals.battery_power)
        IN  /\ Locals.pv_power + Locals.grid_power
                 = Locals.load_power + Locals.battery_power
            /\ Locals.battery_power <= 3 * Kilowatt
            /\ Locals.battery_power >= 0 - 3 * Kilowatt
            /\ ~(charge > 0 /\ discharge > 0)
            /\ Locals.grid_power = Locals.battery_power - surplus
            /\ Locals.grid_power < 0 => surplus > 0
            /\ Locals.grid_power > 0 => surplus < 0
            /\ surplus > 0 => Locals.battery_power >= 0
            /\ surplus < 0 => Locals.battery_power <= 0

\* A read has charged the battery at the rate limit and exported the rest of
\* the surplus.
C30_Witness ==
    /\ MockRead
    /\ Locals.pv_power - Locals.load_power = 4500
    /\ Locals.battery_power = 3 * Kilowatt
    /\ Locals.grid_power = 0 - 1500
    /\ sim.battery_soc = Locals.soc_before + 48000

\* C24: a read discharges the battery only if the state of charge it found
\* exceeds the configured floor, the _min_soc_on_grid that schedule writes
\* set (initially 10); so that after a write that raises the floor above the
\* state of charge no read discharges until the state of charge exceeds it.
C24_DischargeOnlyAboveConfiguredFloor ==
    (MockRead /\ Locals.battery_power < 0)
    => Locals.soc_before > sim.min_soc_on_grid * SocUnit

\* C25: a write with a period list sets the work mode, and the floor when the
\* period carries extraParam.minSocOnGrid, from the period at the index
\* find_current_period_index returns for the list, and leaves work mode, floor
\* and state of charge as they are when the list is empty or no period covers
\* the current time; it returns True; and a schedule read reports the work
\* mode and floor the simulator holds, those of the write before it.
C25_WriteFollowsCurrentPeriod ==
    [][/\ out'.op = "mock.async_set_scheduler" =>
            LET periods == out'.fetched[1].periods
                idx == FindCurrentPeriodIndex(periods, wall)
                period == periods[idx[1] + 1]
            IN  /\ out'.value = Some(TRUE)
                /\ sim'.battery_soc = sim.battery_soc /\ sim'.min_soc = sim.min_soc
                /\ IF periods = <<>> \/ idx = Nothing
                   THEN sim' = sim
                   ELSE /\ sim'.work_mode = IF "workMode" \in DOMAIN period
                                            THEN period.workMode ELSE sim.work_mode
                        /\ sim'.min_soc_on_grid =
                               IF /\ "extraParam" \in DOMAIN period
                                  /\ "minSocOnGrid" \in DOMAIN period.extraParam
                               THEN period.extraParam.minSocOnGrid
                               ELSE sim.min_soc_on_grid
       /\ out'.op = "mock.async_get_scheduler" =>
            /\ Len(out'.value[1].groups) = 1
            /\ out'.value[1].groups[1].workMode = sim.work_mode
            /\ out'.value[1].groups[1].extraParam.minSocOnGrid = sim.min_soc_on_grid]_vars

\* A write of two periods, of which the second covers the current time, has
\* set the work mode and the floor of the second.
C25_Witness ==
    /\ MockWrote
    /\ out.fetched[1].periods = <<MockTopLevelFloor, MockFullDay>>
    /\ wall.hour = 0
    /\ FindCurrentPeriodIndex(out.fetched[1].periods, wall) = Some(1)
    /\ sim.work_mode = "Backup" /\ sim.min_soc_on_grid = 60
    /\ out.value = Some(TRUE)

\* The groups the vendor holds, and both updates finished with their writes
\* accepted.
VendorGroups == Get(schedule, "groups", <<>>)
BothWritten == wp.stage = "done" /\ sel.stage = "done"

\* C28: when a number update and a select update on the same client have both
\* written, in whatever interleaving of their reads and writes, the schedule
\* last written to the vendor carries the new value and the new work mode in
\* every group.
C28_NoLostUpdate ==
    BothWritten =>
        /\ VendorGroups # <<>>
        /\ out.value = Some(VendorGroups)
        /\ \A i \in 1..Len(VendorGroups) :
              /\ Opt(VendorGroups[i], OverriddenKey(wp.attr)) = Some(wp.value)
              /\ Opt(VendorGroups[i], "workMode") = Some(sel.option)

\* The later of the two updates read the schedule after the earlier one had
\* written it.
OneAfterTheOther ==
    \/ Get(wp.fetched[1], "groups", <<>>) = sel.groups
    \/ Get(sel.fetched[1], "groups", <<>>) = wp.groups

\* Two updates that do not overlap keep both changes.
SequentialKeepsBoth == (BothWritten /\ OneAfterTheOther) => C28_NoLostUpdate

====
